---- MODULE Spec2Model ----
(***************************************************************************)
(* colorbrew: a colour value (an RGB triple) and the pure conversions and  *)
(* manipulations around it.  The library holds no mutable state; a run of  *)
(* the model is one caller session: Init draws the arguments of a call,    *)
(* one action applies the function called, and a follow-up action feeds    *)
(* the value returned to the next function of a composition.               *)
(*                                                                         *)
(* Python floats are IEEE-754 binary64.  Every float operation of the      *)
(* source is modelled by the operation on exact values followed by         *)
(* rounding to a 53-bit significand (round to nearest, ties to even), so   *)
(* round() sees the same double as the interpreter does.  Significands     *)
(* are little-endian sequences of 14-bit limbs.                            *)
(***************************************************************************)
EXTENDS Integers, Sequences, FiniteSets, TLC

VARIABLES
    call,   \* the entry point the caller invokes and its arguments
    log     \* the calls made so far, in order: the function, the value it
            \* returned (None if it raised) and the exception class it raised
            \* ("none" if it returned)

vars == <<call, log>>

None == "None"

(***************************************************************************)
(* Natural numbers of arbitrary size: the integer arithmetic beneath the   *)
(* binary64 operators below, which carry the library's float expressions   *)
(***************************************************************************)
Base == 2^14
MantBits == 52 + 1

Limb(a, i) == IF i <= Len(a) THEN a[i] ELSE 0

RECURSIVE BNorm(_)
BNorm(a) == IF Len(a) > 0 /\ a[Len(a)] = 0 THEN BNorm(SubSeq(a, 1, Len(a) - 1)) ELSE a

RECURSIVE BFromInt(_)
BFromInt(n) == IF n = 0 THEN << >> ELSE <<n % Base>> \o BFromInt(n \div Base)

RECURSIVE BToInt(_)
BToInt(a) == IF Len(a) = 0 THEN 0 ELSE a[1] + Base * BToInt(Tail(a))

RECURSIVE BAddC(_, _, _, _)
BAddC(a, b, i, c) ==
    IF i > Len(a) /\ i > Len(b)
    THEN (IF c = 0 THEN << >> ELSE <<c>>)
    ELSE LET t == Limb(a, i) + Limb(b, i) + c
         IN  <<t % Base>> \o BAddC(a, b, i + 1, t \div Base)

BAdd(a, b) == BAddC(a, b, 1, 0)

RECURSIVE BSubC(_, _, _, _)
BSubC(a, b, i, c) ==
    IF i > Len(a) THEN << >>
    ELSE LET t == a[i] - Limb(b, i) - c
         IN  IF t < 0 THEN <<t + Base>> \o BSubC(a, b, i + 1, 1)
                      ELSE <<t>> \o BSubC(a, b, i + 1, 0)

\* a - b for a >= b
BSub(a, b) == BNorm(BSubC(a, b, 1, 0))

RECURSIVE BCmpAt(_, _, _)
BCmpAt(a, b, i) ==
    IF i = 0 THEN 0
    ELSE IF a[i] > b[i] THEN 1
    ELSE IF a[i] < b[i] THEN -1
    ELSE BCmpAt(a, b, i - 1)

BCmp(a, b) ==
    IF Len(a) > Len(b) THEN 1
    ELSE IF Len(a) < Len(b) THEN -1
    ELSE BCmpAt(a, b, Len(a))

RECURSIVE BMulSmallC(_, _, _, _)
BMulSmallC(a, k, i, c) ==
    IF i > Len(a) THEN (IF c = 0 THEN << >> ELSE <<c>>)
    ELSE LET t == a[i] * k + c
         IN  <<t % Base>> \o BMulSmallC(a, k, i + 1, t \div Base)

\* a * k for 0 <= k <= Base
BMulSmall(a, k) == IF k = 0 THEN << >> ELSE BMulSmallC(a, k, 1, 0)

BShiftLimbs(a, n) == IF Len(a) = 0 THEN a ELSE [i \in 1..n |-> 0] \o a

RECURSIVE BMulAt(_, _, _)
BMulAt(a, b, i) ==
    IF i > Len(b) THEN << >>
    ELSE BAdd(BShiftLimbs(BMulSmall(a, b[i]), i - 1), BMulAt(a, b, i + 1))

BMul(a, b) == BMulAt(a, b, 1)

\* a * 2^k
BShl(a, k) == BShiftLimbs(BMulSmall(a, 2^(k % 14)), k \div 14)

RECURSIVE BDivSmallAt(_, _, _, _)
BDivSmallAt(a, k, i, r) ==
    IF i = 0 THEN <<<< >>, r>>
    ELSE LET t == r * Base + a[i]
             rest == BDivSmallAt(a, k, i - 1, t % k)
         IN  <<rest[1] \o <<t \div k>>, rest[2]>>

\* <<a div k, a mod k>> for 0 < k <= Base
BDivSmall(a, k) ==
    LET qr == BDivSmallAt(a, k, Len(a), 0) IN <<BNorm(qr[1]), qr[2]>>

BDropLimbs(a, n) == IF n >= Len(a) THEN << >> ELSE SubSeq(a, n + 1, Len(a))

\* a div 2^k
BShr(a, k) == BDivSmall(BDropLimbs(a, k \div 14), 2^(k % 14))[1]

\* a mod 2^k = 0
BLowZero(a, k) ==
    /\ \A i \in 1..(k \div 14) : Limb(a, i) = 0
    /\ Limb(a, (k \div 14) + 1) % (2^(k % 14)) = 0

\* bit k of a
BBit(a, k) == (Limb(a, (k \div 14) + 1) \div (2^(k % 14))) % 2

\* the number of bits of a limb
BitLenInt(n) == CHOOSE k \in 0..14 : n < 2^k /\ (k = 0 \/ 2^(k - 1) <= n)

BBitLen(a) == IF Len(a) = 0 THEN 0 ELSE 14 * (Len(a) - 1) + BitLenInt(a[Len(a)])

RECURSIVE BFixDigit(_, _, _)
BFixDigit(rem, d, q) ==
    IF BCmp(rem, d) >= 0 THEN BFixDigit(BSub(rem, d), d, q + 1) ELSE <<q, rem>>

\* <<(r * Base) div d, (r * Base) mod d>> for r < d, d of full limbs with its
\* top bit set: the digit is estimated from the leading limbs, then corrected
BDivDigitEst(rr, d, est) == BFixDigit(BSub(rr, BMulSmall(d, est)), d, est)

BDivDigitTop(rr, d) ==
    BDivDigitEst(rr, d,
                 (Limb(rr, Len(d) + 1) * Base + Limb(rr, Len(d))) \div (d[Len(d)] + 1))

BDivDigit(r, d) == BDivDigitTop(BShiftLimbs(r, 1), d)

\* the element of a singleton
Only(S) == CHOOSE v \in S : TRUE

BDivDigitsJoin(qd, rest) == <<rest[1] \o <<qd[1]>>, rest[2]>>

RECURSIVE BDivDigits(_, _, _)
\* <<the next n base-Base digits of r / d, the remainder>>, least digit first
BDivDigits(r, d, n) ==
    IF n = 0 THEN <<<< >>, r>>
    ELSE Only({BDivDigitsJoin(qd, BDivDigits(qd[2], d, n - 1)) : qd \in {BDivDigit(r, d)}})

(***************************************************************************)
(* binary64: sgn * man * 2^exp with man = 0 or 2^52 <= man < 2^53.  The    *)
(* values of the library stay far from the subnormal and overflow ranges.  *)
(***************************************************************************)
FZero == [sgn |-> 1, man |-> << >>, exp |-> 0]

\* the double nearest to sg * n * 2^e (ties to even); ~exact says that the true
\* value lies strictly above n * 2^e (a division's remainder)
FRoundCarry(sg, q1, e) ==
    IF BBitLen(q1) > MantBits
    THEN [sgn |-> sg, man |-> BShr(q1, 1), exp |-> e + 1]
    ELSE [sgn |-> sg, man |-> q1, exp |-> e]

FRoundUp(q, half, low) == half = 1 /\ (~low \/ q[1] % 2 = 1)

FRoundShift(sg, n, e, exact, sh, q) ==
    FRoundCarry(sg,
                IF FRoundUp(q, BBit(n, sh - 1), BLowZero(n, sh - 1) /\ exact)
                THEN BAdd(q, <<1>>) ELSE q,
                e + sh)

FRoundLen(sg, n, e, exact, len) ==
    IF len = 0 THEN FZero
    ELSE IF len <= MantBits
    THEN [sgn |-> sg, man |-> BShl(n, MantBits - len), exp |-> e - (MantBits - len)]
    ELSE FRoundShift(sg, n, e, exact, len - MantBits, BShr(n, len - MantBits))

FRound(sg, n, e, exact) == FRoundLen(sg, n, e, exact, BBitLen(n))

\* float(n)
FInt(n) ==
    IF n < 0 THEN FRound(-1, BFromInt(-n), 0, TRUE) ELSE FRound(1, BFromInt(n), 0, TRUE)

FIsZero(a) == Len(a.man) = 0
FNeg(a) == IF FIsZero(a) THEN a ELSE [a EXCEPT !.sgn = -a.sgn]
FAbs(a) == [a EXCEPT !.sgn = 1]

FMul(a, b) ==
    IF FIsZero(a) \/ FIsZero(b) THEN FZero
    ELSE FRound(a.sgn * b.sgn, BMul(a.man, b.man), a.exp + b.exp, TRUE)

\* the sum of sgn-signed magnitudes x and y on the common exponent e
FAddSigned(a, b, e, x, y, c) ==
    FRound(IF a.sgn = b.sgn \/ c > 0 THEN a.sgn ELSE b.sgn,
           IF a.sgn = b.sgn THEN BAdd(x, y)
           ELSE IF c >= 0 THEN BSub(x, y)
           ELSE BSub(y, x),
           e, TRUE)

FAddAligned(a, b, e, x, y) == FAddSigned(a, b, e, x, y, BCmp(x, y))

FAddExp(a, b, e) == FAddAligned(a, b, e, BShl(a.man, a.exp - e), BShl(b.man, b.exp - e))

FAdd(a, b) ==
    IF FIsZero(a) THEN b
    ELSE IF FIsZero(b) THEN a
    ELSE FAddExp(a, b, IF a.exp < b.exp THEN a.exp ELSE b.exp)

FSub(a, b) == FAdd(a, FNeg(b))

\* a / b for b # 0
FDivQuot(a, b, q0, qr) ==
    FRound(a.sgn * b.sgn, BNorm(qr[1] \o <<q0[1]>>), a.exp - b.exp - 56, Len(qr[2]) = 0)

FDivFirst(a, b, d, q0) == FDivQuot(a, b, q0, BDivDigits(q0[2], d, 4))

FDivScaled(a, b, d, n) == FDivFirst(a, b, d, BFixDigit(n, d, 0))

FDiv(a, b) ==
    IF FIsZero(a) THEN FZero
    ELSE FDivScaled(a, b, BShl(b.man, 3), BShl(a.man, 3))

FCmp(a, b) ==
    IF FIsZero(a) /\ FIsZero(b) THEN 0
    ELSE IF FIsZero(a) THEN -b.sgn
    ELSE IF FIsZero(b) THEN a.sgn
    ELSE IF a.sgn # b.sgn THEN a.sgn
    ELSE IF a.exp # b.exp THEN (IF a.exp > b.exp THEN a.sgn ELSE -a.sgn)
    ELSE a.sgn * BCmp(a.man, b.man)

FLt(a, b) == FCmp(a, b) < 0
FLe(a, b) == FCmp(a, b) <= 0
FEq(a, b) == FCmp(a, b) = 0

\* max(a, b) and min(a, b): the first argument unless the second is larger/smaller
FMax(a, b) == IF FLt(a, b) THEN b ELSE a
FMin(a, b) == IF FLt(b, a) THEN b ELSE a

\* the integer part of |a|
FTrunc(a) ==
    IF FIsZero(a) THEN 0
    ELSE IF a.exp >= 0 THEN BToInt(BShl(a.man, a.exp))
    ELSE IF -a.exp > MantBits THEN 0
    ELSE BToInt(BShr(a.man, -a.exp))

\* n * 2^e rounded to the nearest integer, ties to even
RoundNatUp(q, half, low) == IF half = 1 /\ (~low \/ q % 2 = 1) THEN q + 1 ELSE q

RoundNat(n, e) ==
    IF e >= 0 THEN BToInt(BShl(n, e))
    ELSE RoundNatUp(BToInt(BShr(n, -e)), BBit(n, -e - 1), BLowZero(n, -e - 1))

\* round(a)
FRoundInt(a) == IF FIsZero(a) THEN 0 ELSE a.sgn * RoundNat(a.man, a.exp)

\* a % k for an integer k > 0: fmod is exact and takes the sign of a; a nonzero
\* negative remainder is then moved into [0, k) by a rounded addition
FModRem(a, k, m) ==
    IF FIsZero(m) THEN FZero
    ELSE IF a.sgn < 0 THEN FAdd(FNeg(m), FInt(k))
    ELSE m

FModTrunc(a, k, t) == FModRem(a, k, FSub(FAbs(a), FInt(t - (t % k))))

FMod(a, k) == FModTrunc(a, k, FTrunc(a))

(***************************************************************************)
(* Values and results.  A str is the sequence of its characters.  A call   *)
(* either returns a value or raises an exception class.                    *)
(***************************************************************************)
Returned(v) == [exc |-> "none", val |-> v]
Raised(e) == [exc |-> e, val |-> None]

F0 == FZero
F1 == FInt(1)
F2 == FInt(2)
F4 == FInt(4)
F60 == FInt(60)
F100 == FInt(100)
F255 == FInt(255)
F360 == FInt(360)
FHalf == FDiv(F1, F2)

(***************************************************************************)
(* converters.py                                                           *)
(***************************************************************************)
HexLower == <<"0", "1", "2", "3", "4", "5", "6", "7", "8", "9", "a", "b", "c", "d", "e", "f">>
HexUpper == <<"0", "1", "2", "3", "4", "5", "6", "7", "8", "9", "A", "B", "C", "D", "E", "F">>

IsHexDigit(c) == \E i \in 1..16 : HexLower[i] = c \/ HexUpper[i] = c
HexVal(c) == (CHOOSE i \in 1..16 : HexLower[i] = c \/ HexUpper[i] = c) - 1

RECURSIVE HexNat(_)
HexNat(s) == IF Len(s) = 0 THEN 0 ELSE 16 * HexNat(SubSeq(s, 1, Len(s) - 1)) + HexVal(s[Len(s)])

\* int(s, 16) for the slices hex_to_rgb takes: hex digits after an optional sign
IntBase16(s) ==
    LET signed == Len(s) > 0 /\ s[1] \in {"-", "+"}
        digits == IF signed THEN Tail(s) ELSE s
    IN  IF Len(digits) = 0 \/ \E i \in 1..Len(digits) : ~IsHexDigit(digits[i])
        THEN Raised("ValueError")
        ELSE Returned(IF signed /\ s[1] = "-" THEN -HexNat(digits) ELSE HexNat(digits))

RECURSIVE LStrip(_, _)
LStrip(s, chars) ==
    IF Len(s) > 0 /\ s[1] \in chars THEN LStrip(Tail(s), chars) ELSE s

\* s[i:j] with 0 <= i <= j (Python slice: clipped to the string)
Slice(s, i, j) ==
    LET hi == IF j > Len(s) THEN Len(s) ELSE j
    IN  IF i >= hi THEN << >> ELSE SubSeq(s, i + 1, hi)

hex_to_rgb(hex_str) ==
    LET h0 == LStrip(hex_str, {"#"})
        h  == IF Len(h0) = 3
              THEN <<h0[1], h0[1], h0[2], h0[2], h0[3], h0[3]>>
              ELSE h0
        r  == IntBase16(Slice(h, 0, 2))
        g  == IntBase16(Slice(h, 2, 4))
        b  == IntBase16(Slice(h, 4, 6))
    IN  IF r.exc # "none" THEN r
        ELSE IF g.exc # "none" THEN g
        ELSE IF b.exc # "none" THEN b
        ELSE Returned(<<r.val, g.val, b.val>>)

RECURSIVE ToHex(_)
ToHex(n) == IF n < 16 THEN <<HexLower[n + 1]>>
            ELSE ToHex(n \div 16) \o <<HexLower[(n % 16) + 1]>>

\* format(n, "x"): no zero padding
Fmt02x_unpadded(n) == IF n < 0 THEN <<"-">> \o ToHex(-n) ELSE ToHex(n)

\* format(n, "02x"): lowercase hex, the sign first, zero-padded to width 2
Fmt02x(n) ==
    IF n < 0 THEN <<"-">> \o ToHex(-n)
    ELSE IF n < 16 THEN <<"0">> \o ToHex(n)
    ELSE ToHex(n)

rgb_to_hex(r, g, b) == <<"#">> \o Fmt02x(r) \o Fmt02x(g) \o Fmt02x(b)

FMax3(a, b, c) == FMax(FMax(a, b), c)
FMin3(a, b, c) == FMin(FMin(a, b), c)

\* the hue branch of rgb_to_hsl, in degrees, before rounding
rgb_to_hsl_wrap(hue) == IF FLt(hue, F0) THEN FAdd(hue, F360) ELSE hue

\* the hue scaled by 120.0 instead of 60.0
rgb_to_hsl_hue_doubled(r_norm, g_norm, b_norm, c_max, delta) ==
    rgb_to_hsl_wrap(FMul(
        IF FEq(c_max, r_norm) THEN FMod(FDiv(FSub(g_norm, b_norm), delta), 6)
        ELSE IF FEq(c_max, g_norm) THEN FAdd(FDiv(FSub(b_norm, r_norm), delta), F2)
        ELSE FAdd(FDiv(FSub(r_norm, g_norm), delta), F4),
        FInt(120)))

rgb_to_hsl_hue(r_norm, g_norm, b_norm, c_max, delta) ==
    rgb_to_hsl_wrap(FMul(
        IF FEq(c_max, r_norm) THEN FMod(FDiv(FSub(g_norm, b_norm), delta), 6)
        ELSE IF FEq(c_max, g_norm) THEN FAdd(FDiv(FSub(b_norm, r_norm), delta), F2)
        ELSE FAdd(FDiv(FSub(r_norm, g_norm), delta), F4),
        F60))

\* the saturation branch of rgb_to_hsl
rgb_to_hsl_saturation(c_max, c_min, delta, lightness) ==
    IF FLe(lightness, FHalf) THEN FDiv(delta, FAdd(c_max, c_min))
    ELSE FDiv(delta, FSub(FSub(F2, c_max), c_min))

\* int() in place of round() for the lightness
rgb_to_hsl_trunc(hue, saturation, lightness) ==
    <<FRoundInt(hue), FRoundInt(FMul(saturation, F100)), FTrunc(FMul(lightness, F100))>>

rgb_to_hsl_round(hue, saturation, lightness) ==
    <<FRoundInt(hue), FRoundInt(FMul(saturation, F100)), FRoundInt(FMul(lightness, F100))>>

rgb_to_hsl_delta(r_norm, g_norm, b_norm, c_max, c_min, delta, lightness) ==
    IF FEq(delta, F0) THEN rgb_to_hsl_round(F0, F0, lightness)
    ELSE rgb_to_hsl_round(rgb_to_hsl_hue(r_norm, g_norm, b_norm, c_max, delta),
                          rgb_to_hsl_saturation(c_max, c_min, delta, lightness),
                          lightness)

rgb_to_hsl_extremes(r_norm, g_norm, b_norm, c_max, c_min) ==
    rgb_to_hsl_delta(r_norm, g_norm, b_norm, c_max, c_min,
                     FSub(c_max, c_min), FDiv(FAdd(c_max, c_min), F2))

rgb_to_hsl_norm(r_norm, g_norm, b_norm) ==
    rgb_to_hsl_extremes(r_norm, g_norm, b_norm,
                        FMax3(r_norm, g_norm, b_norm), FMin3(r_norm, g_norm, b_norm))

rgb_to_hsl(r, g, b) ==
    rgb_to_hsl_norm(FDiv(FInt(r), F255), FDiv(FInt(g), F255), FDiv(FInt(b), F255))

\* the first sector's assignment used for every hue
HueSector_first(h, c, x) == <<c, x, F0>>

\* the (r1, g1, b1) sector split shared by hsl_to_rgb and hsv_to_rgb
HueSector(h, c, x) ==
    IF h < 60 THEN <<c, x, F0>>
    ELSE IF h < 120 THEN <<x, c, F0>>
    ELSE IF h < 180 THEN <<F0, c, x>>
    ELSE IF h < 240 THEN <<F0, x, c>>
    ELSE IF h < 300 THEN <<x, F0, c>>
    ELSE <<c, F0, x>>

\* round((r1 + m) * 255) for each channel of the sector
hsl_to_rgb_round(t, m) ==
    <<FRoundInt(FMul(FAdd(t[1], m), F255)),
      FRoundInt(FMul(FAdd(t[2], m), F255)),
      FRoundInt(FMul(FAdd(t[3], m), F255))>>

hsl_to_rgb_chroma(h, l_norm, c) ==
    hsl_to_rgb_round(
        HueSector(h, c, FMul(c, FSub(F1, FAbs(FSub(FMod(FDiv(FInt(h), F60), 2), F1))))),
        FSub(l_norm, FDiv(c, F2)))

\* the blue channel left out of the gray
hsl_to_rgb_gray_tinted(v) == <<v, v, 255 - v>>

hsl_to_rgb_gray(v) == <<v, v, v>>

hsl_to_rgb_norm(h, s_norm, l_norm) ==
    IF FEq(s_norm, F0) THEN hsl_to_rgb_gray(FRoundInt(FMul(l_norm, F255)))
    ELSE hsl_to_rgb_chroma(h, l_norm,
                           FMul(FSub(F1, FAbs(FSub(FMul(F2, l_norm), F1))), s_norm))

hsl_to_rgb(h, s, lit) ==
    hsl_to_rgb_norm(h, FDiv(FInt(s), F100), FDiv(FInt(lit), F100))

\* round(255 * (1 - ink / 100.0) * (1 - k / 100.0))
cmyk_to_rgb_channel(ink, k) ==
    FRoundInt(FMul(FMul(F255, FSub(F1, FDiv(FInt(ink), F100))),
                   FSub(F1, FDiv(FInt(k), F100))))

cmyk_to_rgb(c, m, y, k) ==
    <<cmyk_to_rgb_channel(c, k), cmyk_to_rgb_channel(m, k), cmyk_to_rgb_channel(y, k)>>

\* one ink of rgb_to_cmyk: round((1.0 - norm - k) / (1.0 - k) * 100)
rgb_to_cmyk_ink(norm, k) ==
    FRoundInt(FMul(FDiv(FSub(FSub(F1, norm), k), FSub(F1, k)), F100))

rgb_to_cmyk_key(r_norm, g_norm, b_norm, k) ==
    <<rgb_to_cmyk_ink(r_norm, k), rgb_to_cmyk_ink(g_norm, k),
      rgb_to_cmyk_ink(b_norm, k), FRoundInt(FMul(k, F100))>>

rgb_to_cmyk_norm(r_norm, g_norm, b_norm) ==
    rgb_to_cmyk_key(r_norm, g_norm, b_norm, FSub(F1, FMax3(r_norm, g_norm, b_norm)))

rgb_to_cmyk(r, g, b) ==
    IF r = 0 /\ g = 0 /\ b = 0 THEN <<0, 0, 0, 100>>
    ELSE rgb_to_cmyk_norm(FDiv(FInt(r), F255), FDiv(FInt(g), F255), FDiv(FInt(b), F255))

(***************************************************************************)
(* named_colors.py: the CSS name -> hex table (an excerpt of its entries)  *)
(***************************************************************************)
\* the names in the order the dict yields them
NAMED_COLORS_keys ==
    <<<<"a", "q", "u", "a">>,
      <<"b", "l", "a", "c", "k">>,
      <<"b", "l", "u", "e">>,
      <<"c", "y", "a", "n">>,
      <<"g", "r", "a", "y">>,
      <<"g", "r", "e", "y">>,
      <<"l", "i", "m", "e">>,
      <<"r", "e", "d">>,
      <<"t", "a", "n">>,
      <<"w", "h", "i", "t", "e">>>>

NAMED_COLORS ==
    ( <<"a", "q", "u", "a">>         :> <<"#", "0", "0", "f", "f", "f", "f">> ) @@
    ( <<"b", "l", "a", "c", "k">>    :> <<"#", "0", "0", "0", "0", "0", "0">> ) @@
    ( <<"b", "l", "u", "e">>         :> <<"#", "0", "0", "0", "0", "f", "f">> ) @@
    ( <<"c", "y", "a", "n">>         :> <<"#", "0", "0", "f", "f", "f", "f">> ) @@
    ( <<"g", "r", "a", "y">>         :> <<"#", "8", "0", "8", "0", "8", "0">> ) @@
    ( <<"g", "r", "e", "y">>         :> <<"#", "8", "0", "8", "0", "8", "0">> ) @@
    ( <<"l", "i", "m", "e">>         :> <<"#", "0", "0", "f", "f", "0", "0">> ) @@
    ( <<"r", "e", "d">>              :> <<"#", "f", "f", "0", "0", "0", "0">> ) @@
    ( <<"t", "a", "n">>              :> <<"#", "d", "2", "b", "4", "8", "c">> ) @@
    ( <<"w", "h", "i", "t", "e">>    :> <<"#", "f", "f", "f", "f", "f", "f">> )

(***************************************************************************)
(* parsing.py                                                              *)
(***************************************************************************)
PyInt(n) == [type |-> "int", val |-> n]
PyStr(s) == [type |-> "str", val |-> s]
PyBool(b) == [type |-> "bool", val |-> b]
PyFloat(f) == [type |-> "float", val |-> f]

\* isinstance(v, int): bool is a subclass of int
IsInt(v) == v.type \in {"int", "bool"}
IsBool(v) == v.type = "bool"
IsStr(v) == v.type = "str"

Whitespace == {" ", "\t", "\n"}
Digits == <<"0", "1", "2", "3", "4", "5", "6", "7", "8", "9">>
IsDigit(c) == \E i \in 1..10 : Digits[i] = c
DigitVal(c) == (CHOOSE i \in 1..10 : Digits[i] = c) - 1
UpperAlpha == <<"A", "B", "C", "D", "E", "F", "G", "H", "I", "J", "K", "L", "M",
                "N", "O", "P", "Q", "R", "S", "T", "U", "V", "W", "X", "Y", "Z">>
LowerAlpha == <<"a", "b", "c", "d", "e", "f", "g", "h", "i", "j", "k", "l", "m",
                "n", "o", "p", "q", "r", "s", "t", "u", "v", "w", "x", "y", "z">>

LowerChar(c) ==
    IF \E i \in 1..26 : UpperAlpha[i] = c
    THEN LowerAlpha[CHOOSE i \in 1..26 : UpperAlpha[i] = c]
    ELSE c

\* str.lower()
Lower(s) == [i \in 1..Len(s) |-> LowerChar(s[i])]

RECURSIVE RStrip(_, _)
RStrip(s, chars) ==
    IF Len(s) > 0 /\ s[Len(s)] \in chars THEN RStrip(SubSeq(s, 1, Len(s) - 1), chars) ELSE s

\* str.strip()
Strip(s) == RStrip(LStrip(s, Whitespace), Whitespace)

RECURSIVE DecNat(_)
\* int(s) for a string of decimal digits
DecNat(s) == IF Len(s) = 0 THEN 0 ELSE 10 * DecNat(SubSeq(s, 1, Len(s) - 1)) + DigitVal(s[Len(s)])

CharAt(s, i) == IF i >= 1 /\ i <= Len(s) THEN s[i] ELSE ""

RECURSIVE SkipWs(_, _)
\* \s* from position i: the position after the whitespace
SkipWs(s, i) == IF CharAt(s, i) \in Whitespace THEN SkipWs(s, i + 1) ELSE i

\* (\d{1,3}) from position i: the position after the digits taken, i if none
DigitsEnd(s, i) ==
    IF ~IsDigit(CharAt(s, i)) THEN i
    ELSE IF ~IsDigit(CharAt(s, i + 1)) THEN i + 1
    ELSE IF ~IsDigit(CharAt(s, i + 2)) THEN i + 2
    ELSE i + 3

\* _HEX_RE: ^#?([0-9a-fA-F]{3}|[0-9a-fA-F]{6})$
HexReMatch(s) ==
    LET body == IF Len(s) > 0 /\ s[1] = "#" THEN Tail(s) ELSE s
    IN  /\ Len(body) \in {3, 6}
        /\ \A i \in 1..Len(body) : IsHexDigit(body[i])

\* One component of a CSS function from position i: \s*(\d{1,3}) then %? when
\* pct, then \s* and the closing character.  <<ok, digits, next position>>
FuncComponent(s, i, pct, close) ==
    LET a == SkipWs(s, i)
        b == DigitsEnd(s, a)
        c == IF pct /\ CharAt(s, b) = "%" THEN b + 1 ELSE b
        d == SkipWs(s, c)
    IN  IF b > a /\ CharAt(s, d) = close
        THEN <<TRUE, SubSeq(s, a, b - 1), d + 1>>
        ELSE <<FALSE, << >>, 0>>

\* _RGB_FUNC_RE (pct FALSE) and _HSL_FUNC_RE (pct TRUE) after the function name:
\* the three groups, or << >> when the string does not match
FuncReMatch(s, name, pct) ==
    LET n  == Len(name)
        c1 == FuncComponent(s, n + 1, FALSE, ",")
        c2 == FuncComponent(s, c1[3], pct, ",")
        c3 == FuncComponent(s, c2[3], pct, ")")
    IN  IF Len(s) > n /\ SubSeq(s, 1, n) = name /\ c1[1] /\ c2[1] /\ c3[1]
           /\ c3[3] = Len(s) + 1
        THEN <<c1[2], c2[2], c3[2]>>
        ELSE << >>

RgbFuncName == <<"r", "g", "b", "(">>
HslFuncName == <<"h", "s", "l", "(">>

\* the first channel that is not an int, or is a bool, or lies outside 0-255
\* raises ColorValueError
\* _validate_rgb without its 0-255 test
_validate_rgb_val_unranged(v) == ~IsInt(v) \/ IsBool(v)

_validate_rgb_val(v) == ~IsInt(v) \/ IsBool(v) \/ v.val < 0 \/ v.val > 255

_validate_rgb(r, g, b) ==
    IF _validate_rgb_val(r) \/ _validate_rgb_val(g) \/ _validate_rgb_val(b)
    THEN "ColorValueError"
    ELSE "none"

parse_rgb_args(r, g, b) ==
    IF _validate_rgb(r, g, b) # "none" THEN Raised(_validate_rgb(r, g, b))
    ELSE Returned(<<r.val, g.val, b.val>>)

\* the rgb() branch: the three groups as ints, validated
parse_string_rgb(r, g, b) ==
    IF _validate_rgb(PyInt(r), PyInt(g), PyInt(b)) # "none"
    THEN Raised(_validate_rgb(PyInt(r), PyInt(g), PyInt(b)))
    ELSE Returned(<<r, g, b>>)

\* the branches of parse_string on the stripped value, in order
parse_string_match(value, m_rgb, m_hsl, name) ==
    IF HexReMatch(value) THEN hex_to_rgb(value)
    ELSE IF m_rgb # << >>
    THEN parse_string_rgb(DecNat(m_rgb[1]), DecNat(m_rgb[2]), DecNat(m_rgb[3]))
    ELSE IF m_hsl # << >>
    THEN Returned(hsl_to_rgb(DecNat(m_hsl[1]), DecNat(m_hsl[2]), DecNat(m_hsl[3])))
    ELSE IF name \in DOMAIN NAMED_COLORS THEN hex_to_rgb(NAMED_COLORS[name])
    ELSE Raised("ColorParseError")

parse_string_stripped(value) ==
    parse_string_match(value, FuncReMatch(value, RgbFuncName, FALSE),
                       FuncReMatch(value, HslFuncName, TRUE), Lower(value))

parse_string(value) == parse_string_stripped(Strip(value))

(***************************************************************************)
(* color.py: the constructors.  A Color is its _rgb tuple.                 *)
(***************************************************************************)
\* every refusal of the arguments' shape taken for a refusal of a value
Color__init___value(args) ==
    IF Len(args) = 1
    THEN IF IsStr(args[1]) THEN parse_string(args[1].val)
         ELSE Raised("ColorValueError")
    ELSE IF Len(args) = 3
    THEN IF ~(IsInt(args[1]) /\ IsInt(args[2]) /\ IsInt(args[3]))
         THEN Raised("ColorValueError")
         ELSE parse_rgb_args(args[1], args[2], args[3])
    ELSE Raised("ColorValueError")

Color__init__(args) ==
    IF Len(args) = 1
    THEN IF IsStr(args[1]) THEN parse_string(args[1].val)
         ELSE IF IsInt(args[1]) THEN Raised("ColorValueError")
         ELSE Raised("ColorParseError")
    ELSE IF Len(args) = 3
    THEN IF ~(IsInt(args[1]) /\ IsInt(args[2]) /\ IsInt(args[3]))
         THEN Raised("ColorValueError")
         ELSE parse_rgb_args(args[1], args[2], args[3])
    ELSE Raised("ColorParseError")

\* cls(r, g, b)
ColorOfChannels(rgb) == Color__init__(<<PyInt(rgb[1]), PyInt(rgb[2]), PyInt(rgb[3])>>)

from_hsl(h, s, lit) == ColorOfChannels(hsl_to_rgb(h, s, lit))

from_cmyk(c, m, y, k) == ColorOfChannels(cmyk_to_rgb(c, m, y, k))

from_name_lower(lower) ==
    IF lower \notin DOMAIN NAMED_COLORS THEN Raised("ColorParseError")
    ELSE Color__init__(<<PyStr(NAMED_COLORS[lower])>>)

from_name(name) == from_name_lower(Strip(Lower(name)))


(***************************************************************************)
(* manipulation.py                                                         *)
(***************************************************************************)
\* no clamping
_clamp_none(value, lo, hi) == value

\* max(lo, min(hi, value))
_clamp(value, lo, hi) == FMax(lo, FMin(hi, value))

\* round(c1 + (c2 - c1) * w) for each channel
mix_channels(rgb1, rgb2, w) ==
    <<FRoundInt(FAdd(FInt(rgb1[1]), FMul(FInt(rgb2[1] - rgb1[1]), w))),
      FRoundInt(FAdd(FInt(rgb1[2]), FMul(FInt(rgb2[2] - rgb1[2]), w))),
      FRoundInt(FAdd(FInt(rgb1[3]), FMul(FInt(rgb2[3] - rgb1[3]), w)))>>

mix(rgb1, rgb2, weight) == mix_channels(rgb1, rgb2, _clamp(weight, F0, F1))

shade(r, g, b, amount) == mix(<<r, g, b>>, <<0, 0, 0>>, amount)

tint(r, g, b, amount) == mix(<<r, g, b>>, <<255, 255, 255>>, amount)

tone(r, g, b, amount) == mix(<<r, g, b>>, <<128, 128, 128>>, amount)

\* the weight i / steps instead of i / (steps - 1)
gradient_by_steps(rgb1, rgb2, steps) ==
    IF steps < 2 THEN <<rgb1>>
    ELSE [k \in 1..steps |-> mix(rgb1, rgb2, FDiv(FInt(k - 1), FInt(steps)))]

gradient(rgb1, rgb2, steps) ==
    IF steps < 2 THEN <<rgb1>>
    ELSE [k \in 1..steps |-> mix(rgb1, rgb2, FDiv(FInt(k - 1), FInt(steps - 1)))]

\* _clamp on int arguments
\* no clamping of an int
_clamp_int_none(value, lo, hi) == value

_clamp_int(value, lo, hi) ==
    IF (IF hi < value THEN hi ELSE value) > lo THEN (IF hi < value THEN hi ELSE value) ELSE lo

\* the amount left out
lighten_hsl_unchanged(hsl, amount) == hsl_to_rgb(hsl[1], hsl[2], hsl[3])

\* lighten after rgb_to_hsl; round() of an int is the int
lighten_hsl(hsl, amount) == hsl_to_rgb(hsl[1], hsl[2], _clamp_int(hsl[3] + amount, 0, 100))

lighten(r, g, b, amount) == lighten_hsl(rgb_to_hsl(r, g, b), amount)

darken_hsl(hsl, amount) == hsl_to_rgb(hsl[1], hsl[2], _clamp_int(hsl[3] - amount, 0, 100))

darken(r, g, b, amount) == darken_hsl(rgb_to_hsl(r, g, b), amount)

saturate_hsl(hsl, amount) == hsl_to_rgb(hsl[1], _clamp_int(hsl[2] + amount, 0, 100), hsl[3])

saturate(r, g, b, amount) == saturate_hsl(rgb_to_hsl(r, g, b), amount)

desaturate_hsl(hsl, amount) == hsl_to_rgb(hsl[1], _clamp_int(hsl[2] - amount, 0, 100), hsl[3])

desaturate(r, g, b, amount) == desaturate_hsl(rgb_to_hsl(r, g, b), amount)

\* h + degrees without the wrap into 0..359
rotate_hue_hsl_unwrapped(hsl, degrees) == hsl_to_rgb(hsl[1] + degrees, hsl[2], hsl[3])

rotate_hue_hsl(hsl, degrees) == hsl_to_rgb((hsl[1] + degrees) % 360, hsl[2], hsl[3])

rotate_hue(r, g, b, degrees) == rotate_hue_hsl(rgb_to_hsl(r, g, b), degrees)

\* each channel taken from 256
invert_256(r, g, b) == <<256 - r, 256 - g, 256 - b>>

invert(r, g, b) == <<255 - r, 255 - g, 255 - b>>

\* half the lightness lost with the saturation
grayscale_hsl_darkened(hsl) == hsl_to_rgb(hsl[1], 0, hsl[3] \div 2)

grayscale_hsl(hsl) == hsl_to_rgb(hsl[1], 0, hsl[3])

grayscale(r, g, b) == grayscale_hsl(rgb_to_hsl(r, g, b))

(***************************************************************************)
(* blending.py                                                             *)
(***************************************************************************)
_norm(v) == FDiv(FInt(v), F255)

_denorm(v) == FRoundInt(FMul(FMax(F0, FMin(F1, v)), F255))

\* a + b in place of a * b
_multiply_sum(a, b) == FAdd(a, b)

_multiply(a, b) == FMul(a, b)

_screen(a, b) == FSub(F1, FMul(FSub(F1, a), FSub(F1, b)))

_overlay_ch(a, b) ==
    IF FLt(a, FHalf) THEN FMul(FMul(F2, a), b)
    ELSE FSub(F1, FMul(FMul(F2, FSub(F1, a)), FSub(F1, b)))

\* a ** 0.5 at a = v / 255.0, v = 0..255: the doubles the C library's pow
\* returns, each <<limb 1..4 of the significand, exponent>>
SqrtTable == <<
    <<0, 0, 0, 0, 0>>, <<9204, 5137, 96, 1026, -56>>, <<2268, 9241, 16243, 1450, -56>>, <<12568, 2988, 1545, 1777, -56>>,
    <<9204, 5137, 96, 1026, -55>>, <<6393, 2362, 1793, 1147, -55>>, <<14903, 10677, 9755, 1256, -55>>, <<6355, 235, 4558, 1357, -55>>,
    <<2268, 9241, 16243, 1450, -55>>, <<5613, 7706, 144, 1539, -55>>, <<11076, 11806, 4222, 1622, -55>>, <<4374, 8977, 7180, 1701, -55>>,
    <<12568, 2988, 1545, 1777, -55>>, <<15366, 4220, 10787, 1849, -55>>, <<6606, 9646, 7884, 1919, -55>>, <<12060, 9034, 13956, 1986, -55>>,
    <<9204, 5137, 96, 1026, -54>>, <<14042, 2899, 9546, 1057, -54>>, <<13989, 11026, 3990, 1088, -54>>, <<5522, 5405, 1048, 1118, -54>>,
    <<6393, 2362, 1793, 1147, -54>>, <<8892, 6042, 7166, 1175, -54>>, <<14113, 6662, 1614, 1203, -54>>, <<6588, 4412, 2258, 1230, -54>>,
    <<14903, 10677, 9755, 1256, -54>>, <<15600, 6421, 8312, 1282, -54>>, <<1318, 14516, 14843, 1307, -54>>, <<9426, 14529, 13446, 1332, -54>>,
    <<6355, 235, 4558, 1357, -54>>, <<5630, 3726, 4959, 1381, -54>>, <<10513, 7422, 15014, 1404, -54>>, <<999, 8627, 2289, 1428, -54>>,
    <<2268, 9241, 16243, 1450, -54>>, <<3991, 14150, 8007, 1473, -54>>, <<12440, 6786, 10612, 1495, -54>>, <<15936, 1209, 7916, 1517, -54>>,
    <<5613, 7706, 144, 1539, -54>>, <<6788, 10906, 3891, 1560, -54>>, <<12453, 10141, 2969, 1581, -54>>, <<2679, 7828, 13945, 1601, -54>>,
    <<11076, 11806, 4222, 1622, -54>>, <<4031, 2822, 6730, 1642, -54>>, <<5253, 14875, 5234, 1662, -54>>, <<13289, 1002, 16263, 1681, -54>>,
    <<4374, 8977, 7180, 1701, -54>>, <<9590, 11735, 10881, 1720, -54>>, <<15727, 15275, 11101, 1739, -54>>, <<2393, 1781, 7954, 1758, -54>>,
    <<12568, 2988, 1545, 1777, -54>>, <<12011, 8990, 8360, 1795, -54>>, <<6931, 7455, 12112, 1813, -54>>, <<11737, 5887, 12892, 1831, -54>>,
    <<15366, 4220, 10787, 1849, -54>>, <<974, 16099, 5879, 1867, -54>>, <<14162, 7824, 14633, 1884, -54>>, <<1025, 776, 4355, 1902, -54>>,
    <<6606, 9646, 7884, 1919, -54>>, <<9022, 13152, 8906, 1936, -54>>, <<12544, 6387, 7487, 1953, -54>>, <<3186, 3776, 3689, 1970, -54>>,
    <<12060, 9034, 13956, 1986, -54>>, <<16030, 1314, 5579, 2003, -54>>, <<8520, 3079, 11380, 2019, -54>>, <<1341, 353, 15029, 2035, -54>>,
    <<9204, 5137, 96, 1026, -53>>, <<9785, 527, 16228, 1033, -53>>, <<7610, 4203, 14973, 1041, -53>>, <<11678, 11243, 12738, 1049, -53>>,
    <<14042, 2899, 9546, 1057, -53>>, <<8926, 12841, 5416, 1065, -53>>, <<10363, 13131, 370, 1073, -53>>, <<12807, 13150, 10811, 1080, -53>>,
    <<13989, 11026, 3990, 1088, -53>>, <<1461, 10564, 12693, 1095, -53>>, <<12917, 5370, 4170, 1103, -53>>, <<16047, 12107, 11205, 1110, -53>>,
    <<5522, 5405, 1048, 1118, -53>>, <<7004, 206, 6482, 1125, -53>>, <<2945, 3017, 11138, 1132, -53>>, <<5292, 12283, 15031, 1139, -53>>,
    <<6393, 2362, 1793, 1147, -53>>, <<12402, 5779, 4204, 1154, -53>>, <<1087, 15242, 5894, 1161, -53>>, <<4682, 321, 6878, 1168, -53>>,
    <<8892, 6042, 7166, 1175, -53>>, <<13084, 5696, 6772, 1182, -53>>, <<5553, 15783, 5707, 1189, -53>>, <<16131, 14330, 3984, 1196, -53>>,
    <<14113, 6662, 1614, 1203, -53>>, <<8243, 9229, 14991, 1209, -53>>, <<115, 663, 11359, 1216, -53>>, <<14905, 3892, 7111, 1223, -53>>,
    <<6588, 4412, 2258, 1230, -53>>, <<7540, 15991, 13193, 1236, -53>>, <<7004, 15309, 7159, 1243, -53>>, <<8962, 7651, 549, 1250, -53>>,
    <<14903, 10677, 9755, 1256, -53>>, <<4094, 5417, 2019, 1263, -53>>, <<16321, 1941, 10117, 1269, -53>>, <<15568, 6732, 1289, 1276, -53>>,
    <<15600, 6421, 8312, 1282, -53>>, <<14060, 680, 14810, 1288, -53>>, <<2319, 2337, 4406, 1295, -53>>, <<6647, 4716, 9876, 1301, -53>>,
    <<1318, 14516, 14843, 1307, -53>>, <<9100, 2754, 2932, 1314, -53>>, <<16209, 3171, 6916, 1320, -53>>, <<300, 14019, 10418, 1326, -53>>,
    <<9426, 14529, 13446, 1332, -53>>, <<258, 14158, 16006, 1338, -53>>, <<12081, 3508, 1721, 1345, -53>>, <<7671, 3566, 3364, 1351, -53>>,
    <<6355, 235, 4558, 1357, -53>>, <<3883, 9947, 5308, 1363, -53>>, <<9193, 14194, 5621, 1369, -53>>, <<3725, 8749, 5503, 1375, -53>>,
    <<5630, 3726, 4959, 1381, -53>>, <<11524, 7261, 3994, 1387, -53>>, <<14291, 9186, 2614, 1393, -53>>, <<419, 13854, 824, 1399, -53>>,
    <<10513, 7422, 15014, 1404, -53>>, <<2415, 7064, 12420, 1410, -53>>, <<10008, 11860, 9431, 1416, -53>>, <<9289, 2853, 6053, 1422, -53>>,
    <<999, 8627, 2289, 1428, -53>>, <<16184, 7048, 14529, 1433, -53>>, <<13147, 7234, 10009, 1439, -53>>, <<11013, 437, 5118, 1445, -53>>,
    <<2268, 9241, 16243, 1450, -53>>, <<5757, 5678, 10622, 1456, -53>>, <<15379, 9573, 4642, 1462, -53>>, <<9272, 6660, 14692, 1467, -53>>,
    <<3991, 14150, 8007, 1473, -53>>, <<7081, 15232, 976, 1479, -53>>, <<16319, 8258, 9987, 1484, -53>>, <<853, 6776, 2275, 1490, -53>>,
    <<12440, 6786, 10612, 1495, -53>>, <<1490, 3165, 2234, 1501, -53>>, <<10331, 6068, 9912, 1506, -53>>, <<7061, 8198, 882, 1512, -53>>,
    <<15936, 1209, 7916, 1517, -53>>, <<4214, 8507, 14632, 1522, -53>>, <<1138, 3348, 4651, 1528, -53>>, <<7220, 7172, 10743, 1533, -53>>,
    <<5613, 7706, 144, 1539, -53>>, <<10537, 8136, 5625, 1544, -53>>, <<5737, 10749, 10805, 1549, -53>>, <<2805, 567, 15688, 1554, -53>>,
    <<6788, 10906, 3891, 1560, -53>>, <<4162, 8709, 8187, 1565, -53>>, <<6340, 9251, 12194, 1570, -53>>, <<1607, 10625, 15915, 1575, -53>>,
    <<12453, 10141, 2969, 1581, -53>>, <<12872, 4349, 6127, 1586, -53>>, <<867, 5436, 9007, 1591, -53>>, <<13475, 8474, 11612, 1596, -53>>,
    <<2679, 7828, 13945, 1601, -53>>, <<14873, 13545, 16008, 1606, -53>>, <<2393, 2229, 1421, 1612, -53>>, <<4663, 15349, 2952, 1617, -53>>,
    <<11076, 11806, 4222, 1622, -53>>, <<13743, 15400, 5232, 1627, -53>>, <<4599, 156, 5986, 1632, -53>>, <<15373, 5023, 6484, 1637, -53>>,
    <<4031, 2822, 6730, 1642, -53>>, <<13887, 14937, 6725, 1647, -53>>, <<15740, 13033, 6473, 1652, -53>>, <<6674, 982, 5976, 1657, -53>>,
    <<5253, 14875, 5234, 1662, -53>>, <<8812, 8348, 4252, 1667, -53>>, <<11326, 48, 3031, 1672, -53>>, <<90, 8108, 1572, 1677, -53>>,
    <<13289, 1002, 16263, 1681, -53>>, <<12835, 12251, 14336, 1686, -53>>, <<15003, 9353, 12179, 1691, -53>>, <<3848, 8486, 9793, 1696, -53>>,
    <<4374, 8977, 7180, 1701, -53>>, <<4288, 9700, 4342, 1706, -53>>, <<2994, 9082, 1281, 1711, -53>>, <<7707, 5112, 14383, 1715, -53>>,
    <<9590, 11735, 10881, 1720, -53>>, <<5536, 9707, 7162, 1725, -53>>, <<187, 12139, 3227, 1730, -53>>, <<4665, 15353, 15462, 1734, -53>>,
    <<15727, 15275, 11101, 1739, -53>>, <<8217, 7443, 6530, 1744, -53>>, <<6434, 3394, 1750, 1749, -53>>, <<5134, 14292, 13146, 1753, -53>>,
    <<2393, 1781, 7954, 1758, -53>>, <<13338, 9063, 2557, 1763, -53>>, <<15689, 13452, 13342, 1767, -53>>, <<7386, 8297, 7543, 1772, -53>>,
    <<12568, 2988, 1545, 1777, -53>>, <<3179, 6583, 11733, 1781, -53>>, <<14812, 11423, 5341, 1786, -53>>, <<14500, 9530, 15139, 1790, -53>>,
    <<12011, 8990, 8360, 1795, -53>>, <<5136, 1194, 1390, 1800, -53>>, <<4785, 9994, 10613, 1804, -53>>, <<8866, 9790, 3264, 1809, -53>>,
    <<6931, 7455, 12112, 1813, -53>>, <<15653, 9570, 4390, 1818, -53>>, <<14099, 6049, 12868, 1822, -53>>, <<8238, 2908, 4779, 1827, -53>>,
    <<11737, 5887, 12892, 1831, -53>>, <<8629, 4073, 4441, 1836, -53>>, <<12590, 2669, 12195, 1840, -53>>, <<9882, 6618, 3387, 1845, -53>>,
    <<15366, 4220, 10787, 1849, -53>>, <<12272, 16292, 1627, 1854, -53>>, <<5131, 14249, 8678, 1858, -53>>, <<5686, 2029, 15557, 1862, -53>>,
    <<974, 16099, 5879, 1867, -53>>, <<1920, 10768, 12416, 1871, -53>>, <<8647, 5649, 2400, 1876, -53>>, <<7205, 3743, 8600, 1880, -53>>,
    <<14162, 7824, 14633, 1884, -53>>, <<5231, 4063, 4117, 1889, -53>>, <<6504, 11178, 9820, 1893, -53>>, <<4256, 14907, 15360, 1897, -53>>,
    <<1025, 776, 4355, 1902, -53>>, <<5019, 3255, 9572, 1906, -53>>, <<2016, 7459, 14629, 1910, -53>>, <<8093, 14684, 3143, 1915, -53>>,
    <<6606, 9646, 7884, 1919, -53>>, <<15209, 9632, 12468, 1923, -53>>, <<4397, 15356, 512, 1928, -53>>, <<11679, 10955, 4786, 1932, -53>>,
    <<9022, 13152, 8906, 1936, -53>>, <<15114, 5716, 12874, 1940, -53>>, <<10111, 5006, 306, 1945, -53>>, <<13317, 10817, 3971, 1949, -53>>,
    <<12544, 6387, 7487, 1953, -53>>, <<7295, 7549, 10854, 1957, -53>>, <<1977, 13582, 14073, 1961, -53>>, <<14669, 7213, 762, 1966, -53>>,
    <<3186, 3776, 3689, 1970, -53>>, <<3354, 2054, 6471, 1974, -53>>, <<4382, 673, 9109, 1978, -53>>, <<3725, 14485, 11603, 1982, -53>>,
    <<12060, 9034, 13956, 1986, -53>>, <<8409, 15249, 16167, 1990, -53>>, <<9263, 14754, 1854, 1995, -53>>, <<5947, 5410, 3786, 1999, -53>>,
    <<16030, 1314, 5579, 2003, -53>>, <<2997, 38, 7234, 2007, -53>>, <<8303, 15391, 8751, 2011, -53>>, <<4268, 11894, 10133, 2015, -53>>,
    <<8520, 3079, 11380, 2019, -53>>, <<1237, 2344, 12492, 2023, -53>>, <<5653, 6566, 13470, 2027, -53>>, <<4166, 12492, 14315, 2031, -53>>,
    <<1341, 353, 15029, 2035, -53>>, <<4460, 15787, 15610, 2039, -53>>, <<3542, 6002, 16062, 2043, -53>>, <<0, 0, 0, 1024, -52>>
>>

Pow0_5(a) ==
    LET e == SqrtTable[FRoundInt(FMul(a, F255)) + 1]
    IN  [sgn |-> 1, man |-> <<e[1], e[2], e[3], e[4]>>, exp |-> e[5]]

\* d of the W3C soft-light formula
_soft_light_d(a) ==
    IF FLe(a, FDiv(F1, F4))
    THEN FMul(FAdd(FMul(FSub(FMul(FInt(16), a), FInt(12)), a), F4), a)
    ELSE Pow0_5(a)

_soft_light_ch(a, b) ==
    IF FLe(b, FHalf)
    THEN FSub(a, FMul(FMul(FSub(F1, FMul(F2, b)), a), FSub(F1, a)))
    ELSE FAdd(a, FMul(FSub(FMul(F2, b), F1), FSub(_soft_light_d(a), a)))

\* overlay with its arguments as they come
_hard_light_ch_unswapped(a, b) == _overlay_ch(a, b)

_hard_light_ch(a, b) == _overlay_ch(b, a)

_difference_ch(a, b) == FAbs(FSub(a, b))

\* the keys of _MODES
_MODES == {"multiply", "screen", "overlay", "soft_light", "hard_light", "difference"}

ModeFn(mode, a, b) ==
    CASE mode = "multiply"   -> _multiply(a, b)
      [] mode = "screen"     -> _screen(a, b)
      [] mode = "overlay"    -> _overlay_ch(a, b)
      [] mode = "soft_light" -> _soft_light_ch(a, b)
      [] mode = "hard_light" -> _hard_light_ch(a, b)
      [] mode = "difference" -> _difference_ch(a, b)

_apply(base, top, mode) ==
    <<_denorm(ModeFn(mode, _norm(base[1]), _norm(top[1]))),
      _denorm(ModeFn(mode, _norm(base[2]), _norm(top[2]))),
      _denorm(ModeFn(mode, _norm(base[3]), _norm(top[3])))>>

blend(base, top, mode) ==
    IF mode \notin _MODES THEN Raised("ValueError")
    ELSE Returned(_apply(base, top, mode))

(***************************************************************************)
(* contrast.py                                                             *)
(***************************************************************************)
\* ((v + 0.055) / 1.055) ** 2.4 at v = channel / 255.0, channel = 0..255: the
\* doubles the C library's pow returns, each <<limb 1..4 of the significand,
\* exponent>>
PowTable == <<
    <<10627, 6258, 10093, 1748, -63>>, <<6401, 5022, 7534, 1031, -62>>, <<14126, 7407, 15765, 1203, -62>>, <<9282, 5856, 3541, 1392, -62>>,
    <<9024, 6390, 9957, 1596, -62>>, <<3280, 7368, 8353, 1817, -62>>, <<11715, 9625, 10510, 1027, -61>>, <<5271, 4571, 2266, 1155, -61>>,
    <<6230, 3507, 6797, 1291, -61>>, <<9581, 9549, 10418, 1436, -61>>, <<14052, 15824, 15756, 1590, -61>>, <<7321, 5270, 8987, 1754, -61>>,
    <<6621, 7218, 8989, 1927, -61>>, <<937, 15894, 907, 1055, -60>>, <<9249, 15285, 3115, 1151, -60>>, <<8825, 15959, 4090, 1252, -60>>,
    <<2344, 12783, 4972, 1358, -60>>, <<2325, 11587, 6877, 1469, -60>>, <<13665, 198, 10900, 1585, -60>>, <<13137, 16101, 1728, 1707, -60>>,
    <<8235, 15997, 13185, 1833, -60>>, <<14544, 6181, 13537, 1965, -60>>, <<4792, 12138, 10091, 1051, -59>>, <<68, 10794, 677, 1123, -59>>,
    <<2787, 11516, 3593, 1197, -59>>, <<10597, 3831, 2939, 1274, -59>>, <<2949, 702, 15574, 1353, -59>>, <<14089, 10804, 9198, 1436, -59>>,
    <<14003, 10486, 658, 1522, -59>>, <<13601, 13726, 6792, 1610, -59>>, <<5821, 10752, 11665, 1701, -59>>, <<15030, 4711, 15719, 1795, -59>>,
    <<13326, 15349, 3005, 1893, -59>>, <<2111, 550, 6724, 1993, -59>>, <<1684, 3531, 5457, 1048, -58>>, <<3298, 4875, 7998, 1101, -58>>,
    <<12658, 6410, 3000, 1156, -58>>, <<1725, 1721, 7052, 1212, -58>>, <<7179, 9950, 3971, 1270, -58>>, <<8100, 11514, 10342, 1329, -58>>,
    <<787, 14821, 9978, 1390, -58>>, <<11758, 8244, 3075, 1453, -58>>, <<13228, 10351, 6209, 1517, -58>>, <<11739, 5386, 3188, 1583, -58>>,
    <<2229, 9783, 10584, 1650, -58>>, <<32, 7559, 12201, 1719, -58>>, <<15321, 357, 8224, 1790, -58>>, <<11295, 8299, 15219, 1862, -58>>,
    <<15306, 5257, 601, 1937, -58>>, <<8629, 1559, 13701, 2012, -58>>, <<10360, 5981, 2772, 1045, -57>>, <<16166, 3611, 12730, 1084, -57>>,
    <<13435, 6541, 4043, 1125, -57>>, <<9770, 6313, 9566, 1166, -57>>, <<3345, 14418, 13000, 1208, -57>>, <<10959, 13447, 14431, 1251, -57>>,
    <<4351, 6540, 13943, 1295, -57>>, <<10448, 1278, 11619, 1340, -57>>, <<7888, 9961, 7541, 1386, -57>>, <<5358, 713, 1793, 1433, -57>>,
    <<14830, 12424, 10838, 1480, -57>>, <<9255, 7540, 1991, 1529, -57>>, <<2823, 3365, 8099, 1578, -57>>, <<14796, 6754, 12857, 1628, -57>>,
    <<5001, 14336, 16344, 1679, -57>>, <<16316, 12717, 2255, 1732, -57>>, <<5410, 11463, 3435, 1785, -57>>, <<5874, 10520, 3577, 1839, -57>>,
    <<6195, 413, 2758, 1894, -57>>, <<5855, 11580, 1052, 1950, -57>>, <<8264, 16248, 14920, 2006, -57>>, <<1893, 13456, 5834, 1032, -56>>,
    <<14357, 7290, 12070, 1061, -56>>, <<4498, 3625, 9820, 1091, -56>>, <<15586, 12258, 15504, 1121, -56>>, <<5850, 6103, 12776, 1152, -56>>,
    <<6482, 3176, 1671, 1184, -56>>, <<14667, 1138, 14993, 1215, -56>>, <<16274, 10132, 3625, 1248, -56>>, <<8463, 3698, 372, 1281, -56>>,
    <<7163, 759, 5268, 1314, -56>>, <<7769, 152, 1964, 1348, -56>>, <<15020, 13457, 6878, 1382, -56>>, <<11988, 15908, 3662, 1417, -56>>,
    <<382, 11986, 8734, 1452, -56>>, <<14801, 2708, 5744, 1488, -56>>, <<13607, 2074, 11109, 1524, -56>>, <<7786, 4346, 8479, 1561, -56>>,
    <<2672, 489, 14272, 1598, -56>>, <<15497, 10990, 12136, 1636, -56>>, <<5741, 3993, 2106, 1675, -56>>, <<13892, 10028, 597, 1714, -56>>,
    <<1540, 7381, 7643, 1753, -56>>, <<15966, 4051, 6892, 1793, -56>>, <<8240, 5039, 14760, 1833, -56>>, <<9893, 12382, 14895, 1874, -56>>,
    <<13496, 8820, 7330, 1916, -56>>, <<3, 6989, 8480, 1958, -56>>, <<15182, 306, 1993, 2001, -56>>, <<706, 12172, 4283, 2044, -56>>,
    <<9713, 15231, 15883, 1043, -55>>, <<11663, 3789, 1278, 1066, -55>>, <<111, 3967, 7492, 1088, -55>>, <<12255, 5691, 1773, 1111, -55>>,
    <<16112, 13975, 520, 1134, -55>>, <<4426, 16165, 3749, 1157, -55>>, <<291, 14724, 11475, 1180, -55>>, <<7419, 10868, 7329, 1204, -55>>,
    <<3573, 4583, 7710, 1228, -55>>, <<10062, 11021, 12632, 1252, -55>>, <<8149, 11369, 5727, 1277, -55>>, <<13791, 2012, 3394, 1302, -55>>,
    <<15987, 10936, 5646, 1327, -55>>, <<8244, 15821, 12499, 1352, -55>>, <<15009, 9590, 7584, 1378, -55>>, <<14908, 428, 7299, 1404, -55>>,
    <<6699, 11792, 11657, 1430, -55>>, <<5055, 505, 4291, 1457, -55>>, <<15488, 4227, 1597, 1484, -55>>, <<4867, 10398, 3590, 1511, -55>>,
    <<15197, 5396, 10285, 1538, -55>>, <<11071, 7327, 5311, 1566, -55>>, <<1657, 494, 5067, 1594, -55>>, <<11275, 947, 9566, 1622, -55>>,
    <<13438, 7347, 2438, 1651, -55>>, <<8604, 973, 82, 1680, -55>>, <<3, 11271, 2510, 1709, -55>>, <<15114, 1176, 9738, 1738, -55>>,
    <<9005, 14585, 5393, 1768, -55>>, <<10095, 12519, 5875, 1798, -55>>, <<510, 4213, 11197, 1828, -55>>, <<6225, 14353, 4987, 1859, -55>>,
    <<3944, 1172, 3645, 1890, -55>>, <<5088, 3911, 7182, 1921, -55>>, <<5872, 11760, 15612, 1952, -55>>, <<16339, 13018, 12565, 1984, -55>>,
    <<4685, 11490, 14438, 2016, -55>>, <<1363, 5053, 10622, 1024, -54>>, <<6010, 5468, 114, 1041, -54>>, <<11066, 15791, 8469, 1057, -54>>,
    <<13150, 11633, 2927, 1074, -54>>, <<922, 956, 16262, 1090, -54>>, <<9638, 7690, 15711, 1107, -54>>, <<10647, 6208, 1282, 1125, -54>>,
    <<12721, 3244, 5749, 1142, -54>>, <<14823, 5132, 12734, 1159, -54>>, <<6883, 1426, 5860, 1177, -54>>, <<2296, 14054, 1516, 1195, -54>>,
    <<3800, 15404, 16094, 1212, -54>>, <<1080, 10248, 448, 1231, -54>>, <<177, 2976, 3736, 1249, -54>>, <<2689, 13985, 9579, 1267, -54>>,
    <<444, 14147, 1601, 1286, -54>>, <<1967, 6731, 12576, 1304, -54>>, <<8861, 11024, 9741, 1323, -54>>, <<7701, 13183, 9487, 1342, -54>>,
    <<10153, 15388, 11820, 1361, -54>>, <<10328, 3080, 363, 1381, -54>>, <<6827, 10499, 7888, 1400, -54>>, <<7547, 5999, 1635, 1420, -54>>,
    <<930, 6741, 14377, 1439, -54>>, <<8313, 13157, 13352, 1459, -54>>, <<4445, 8958, 14951, 1479, -54>>, <<1066, 10284, 2795, 1500, -54>>,
    <<15045, 173, 9659, 1520, -54>>, <<3033, 10488, 2779, 1541, -54>>, <<8369, 7223, 14931, 1561, -54>>, <<12391, 5203, 13352, 1582, -54>>,
    <<14414, 2546, 14432, 1603, -54>>, <<12721, 13435, 1792, 1625, -54>>, <<1313, 2585, 8208, 1646, -54>>, <<15101, 16315, 915, 1668, -54>>,
    <<10686, 2334, 12690, 1689, -54>>, <<8597, 6343, 10768, 1711, -54>>, <<5578, 8203, 11540, 1733, -54>>, <<955, 3856, 15012, 1755, -54>>,
    <<6021, 5327, 4805, 1778, -54>>, <<3677, 7961, 13693, 1800, -54>>, <<5854, 6806, 8914, 1823, -54>>, <<12018, 13002, 6857, 1846, -54>>,
    <<16325, 4631, 7529, 1869, -54>>, <<14210, 8639, 10934, 1892, -54>>, <<8461, 2534, 695, 1916, -54>>, <<14789, 12692, 9584, 1939, -54>>,
    <<1318, 16059, 4840, 1963, -54>>, <<7844, 5682, 2853, 1987, -54>>, <<2435, 7104, 3627, 2011, -54>>, <<16066, 12822, 7168, 2035, -54>>,
    <<15538, 7532, 14933, 1029, -53>>, <<75, 11087, 3095, 1042, -53>>, <<6199, 12918, 9033, 1054, -53>>, <<80, 8739, 16366, 1066, -53>>,
    <<1224, 10513, 8712, 1079, -53>>, <<1003, 13690, 2458, 1092, -53>>, <<12015, 13589, 13991, 1104, -53>>, <<2578, 5403, 10546, 1117, -53>>,
    <<11226, 577, 8509, 1130, -53>>, <<15237, 10433, 7882, 1143, -53>>, <<11982, 13398, 8669, 1156, -53>>, <<1745, 4158, 10873, 1169, -53>>,
    <<3147, 10042, 14495, 1182, -53>>, <<2823, 9106, 3155, 1196, -53>>, <<3232, 12051, 9623, 1209, -53>>, <<4749, 13073, 1134, 1223, -53>>,
    <<3955, 6248, 10459, 1236, -53>>, <<8140, 1916, 4832, 1250, -53>>, <<491, 10300, 639, 1264, -53>>, <<3387, 8735, 14268, 1277, -53>>,
    <<10488, 7209, 12953, 1291, -53>>, <<557, 15595, 13080, 1305, -53>>, <<275, 10880, 14653, 1319, -53>>, <<15841, 2706, 1290, 1334, -53>>,
    <<13541, 604, 5761, 1348, -53>>, <<14875, 13989, 11684, 1362, -53>>, <<11299, 3014, 2680, 1377, -53>>, <<9880, 9640, 11517, 1391, -53>>,
    <<13293, 10182, 5431, 1406, -53>>, <<16023, 13614, 808, 1421, -53>>, <<463, 12418, 14035, 1435, -53>>, <<14762, 15348, 12346, 1450, -53>>,
    <<4785, 14673, 12128, 1465, -53>>, <<6390, 2550, 13384, 1480, -53>>, <<9883, 3801, 16115, 1495, -53>>, <<4578, 10375, 3940, 1511, -53>>,
    <<6832, 14115, 9630, 1526, -53>>, <<6023, 6762, 420, 1542, -53>>, <<8740, 12721, 9079, 1557, -53>>, <<887, 7144, 2843, 1573, -53>>,
    <<8009, 14231, 14481, 1588, -53>>, <<8005, 8932, 11229, 1604, -53>>, <<7589, 15247, 9472, 1620, -53>>, <<3943, 7925, 9214, 1636, -53>>,
    <<11772, 10767, 10456, 1652, -53>>, <<8351, 14710, 13201, 1668, -53>>, <<9518, 10591, 1068, 1685, -53>>, <<14479, 5535, 6827, 1701, -53>>,
    <<16066, 6571, 14096, 1717, -53>>, <<10857, 4248, 6494, 1734, -53>>, <<9208, 5403, 407, 1751, -53>>, <<12422, 395, 12222, 1767, -53>>,
    <<6171, 12258, 9172, 1784, -53>>, <<3003, 14779, 7645, 1801, -53>>, <<2801, 14421, 7643, 1818, -53>>, <<2315, 1171, 9169, 1835, -53>>,
    <<4593, 14076, 12223, 1852, -53>>, <<11906, 10172, 426, 1870, -53>>, <<2260, 11942, 6547, 1887, -53>>, <<4053, 9008, 14205, 1904, -53>>,
    <<6822, 7289, 7018, 1922, -53>>, <<2996, 12615, 1372, 1940, -53>>, <<13137, 14342, 13654, 1957, -53>>, <<12822, 1741, 11099, 1975, -53>>,
    <<6878, 13146, 10091, 1993, -53>>, <<5222, 4884, 10635, 2011, -53>>, <<15026, 15116, 12731, 2029, -53>>, <<0, 0, 0, 1024, -52>>
>>

Pow2_4(channel) ==
    LET e == PowTable[channel + 1]
    IN  [sgn |-> 1, man |-> <<e[1], e[2], e[3], e[4]>>, exp |-> e[5]]

\* the double of a decimal literal n / 10^k
FDec(n, p10) == FDiv(FInt(n), FInt(p10))

_linearize_v(channel, v) ==
    IF FLe(v, FDec(4045, 100000)) THEN FDiv(v, FDec(1292, 100))
    ELSE Pow2_4(channel)

_linearize(channel) == _linearize_v(channel, FDiv(FInt(channel), F255))

relative_luminance(r, g, b) ==
    FAdd(FAdd(FMul(FDec(2126, 10000), _linearize(r)),
              FMul(FDec(7152, 10000), _linearize(g))),
         FMul(FDec(722, 10000), _linearize(b)))

\* round(x, 2): the hundredths nearest to the exact value of x (ties to even),
\* as a count of hundredths
Round2(x) ==
    IF FIsZero(x) THEN 0
    ELSE x.sgn * RoundNat(BMulSmall(x.man, 100), x.exp)

\* (l1 + 0.05) / (l2 + 0.05) in argument order
contrast_ratio_of_unordered(l1, l2) ==
    Round2(FDiv(FAdd(l1, FDec(5, 100)), FAdd(l2, FDec(5, 100))))

\* round((lighter + 0.05) / (darker + 0.05), 2)
contrast_ratio_of(l1, l2) ==
    Round2(FDiv(FAdd(FMax(l1, l2), FDec(5, 100)), FAdd(FMin(l1, l2), FDec(5, 100))))

contrast_ratio(rgb1, rgb2) ==
    contrast_ratio_of(relative_luminance(rgb1[1], rgb1[2], rgb1[3]),
                      relative_luminance(rgb2[1], rgb2[2], rgb2[3]))


(***************************************************************************)
(* colorblind.py                                                           *)
(***************************************************************************)
_MATRICES ==
    [protanopia |->
        <<<<FDec(170556992, 10^9), FDec(829443014, 10^9), F0>>,
          <<FDec(170556991, 10^9), FDec(829443008, 10^9), F0>>,
          <<FNeg(FDec(4517144, 10^9)), FDec(4517144, 10^9), F1>>>>,
     deuteranopia |->
        <<<<FDec(330660070, 10^9), FDec(669339930, 10^9), F0>>,
          <<FDec(330660070, 10^9), FDec(669339930, 10^9), F0>>,
          <<FNeg(FDec(27855380, 10^9)), FDec(27855380, 10^9), F1>>>>,
     tritanopia |->
        <<<<F1, FDec(127398900, 10^9), FNeg(FDec(127398900, 10^9))>>,
          <<F0, FDec(873909300, 10^9), FDec(126090700, 10^9)>>,
          <<F0, FDec(873909300, 10^9), FDec(126090700, 10^9)>>>>]

\* v ** (1.0 / 2.4) at the linear values simulate reaches from the colours of
\* SimColours: the doubles the C library's pow returns, each <<limb 1..4 and
\* exponent of v, limb 1..4 and exponent of the power>>
InvPowTable == <<
    <<1600, 10620, 9619, 1700, -61, 6039, 5399, 5722, 1504, -56>>, <<11842, 14120, 11711, 1726, -61, 9985, 12338, 15347, 1513, -56>>,
    <<13061, 989, 11712, 1726, -61, 479, 13527, 15347, 1513, -56>>, <<4552, 1701, 5935, 1776, -61, 13386, 4513, 15142, 1531, -56>>,
    <<5141, 2822, 4683, 1928, -61, 2452, 1075, 3466, 1585, -56>>, <<7610, 14308, 1547, 1932, -61, 8220, 2793, 8444, 1586, -56>>,
    <<10975, 12309, 2329, 1184, -60, 2107, 7978, 15574, 1726, -56>>, <<2117, 14972, 9653, 1268, -58, 3510, 8318, 5543, 1583, -55>>,
    <<14820, 8673, 8686, 1825, -58, 8461, 6331, 10131, 1842, -55>>, <<4362, 6750, 1313, 1957, -58, 9828, 5975, 13490, 1896, -55>>,
    <<14230, 3643, 9213, 1890, -56, 4842, 3190, 11538, 1665, -54>>, <<13608, 4520, 15319, 1032, -55, 1909, 15705, 6572, 1728, -54>>,
    <<12185, 14871, 10678, 1043, -55, 13705, 4344, 13934, 1735, -54>>, <<15944, 13541, 3323, 1397, -55, 4902, 4045, 3661, 1960, -54>>,
    <<16325, 15740, 3323, 1397, -55, 12736, 5330, 3661, 1960, -54>>, <<9786, 4320, 14913, 1672, -55, 12577, 32, 7989, 1056, -53>>,
    <<2305, 7272, 14913, 1672, -55, 6970, 809, 7989, 1056, -53>>, <<14211, 14110, 5393, 1768, -55, 11117, 10189, 3116, 1081, -53>>,
    <<9005, 14585, 5393, 1768, -55, 9955, 10310, 3116, 1081, -53>>, <<9006, 14585, 5393, 1768, -55, 9955, 10310, 3116, 1081, -53>>,
    <<10538, 1049, 5394, 1768, -55, 2983, 11036, 3116, 1081, -53>>, <<13940, 4507, 11333, 1814, -55, 6381, 15718, 14947, 1092, -53>>,
    <<15725, 5931, 12036, 1090, -54, 5113, 14006, 634, 1180, -53>>, <<2003, 8041, 12036, 1090, -54, 1362, 14957, 634, 1180, -53>>,
    <<8916, 9687, 10661, 1131, -54, 6332, 6637, 4670, 1198, -53>>, <<3704, 10942, 6285, 1354, -54, 3682, 2624, 7117, 1291, -53>>,
    <<7564, 12741, 12875, 1489, -54, 6059, 4715, 12107, 1343, -53>>, <<16015, 11468, 14983, 1063, -53, 15693, 10304, 14864, 1558, -53>>,
    <<1124, 13597, 13316, 1207, -53, 14265, 6069, 8560, 1643, -53>>, <<10140, 11106, 1649, 1318, -53, 14732, 11500, 7594, 1704, -53>>,
    <<479, 13666, 1649, 1318, -53, 14916, 12879, 7594, 1704, -53>>, <<14532, 2720, 13241, 1370, -53, 4186, 14612, 8813, 1732, -53>>,
    <<11732, 6190, 5581, 1453, -53, 6304, 9069, 4277, 1775, -53>>, <<5146, 12893, 11582, 1466, -53, 12954, 14381, 750, 1782, -53>>,
    <<4570, 2114, 14422, 1592, -53, 11714, 9353, 6344, 1844, -53>>, <<4223, 7357, 12284, 1627, -53, 6766, 460, 1705, 1861, -53>>,
    <<6816, 6807, 13148, 1664, -53, 12327, 11893, 10488, 1878, -53>>, <<12303, 160, 11457, 1698, -53, 13977, 1496, 7935, 1894, -53>>,
    <<4682, 3459, 11457, 1698, -53, 10634, 3029, 7935, 1894, -53>>, <<1050, 4474, 1426, 1787, -53, 10612, 5888, 15572, 1934, -53>>,
    <<12982, 2965, 12554, 1789, -53, 13100, 16027, 2598, 1936, -53>>, <<15409, 8944, 15600, 1990, -53, 4915, 2272, 558, 2024, -53>>,
    <<868, 14572, 12731, 2029, -53, 14643, 14946, 6345, 2040, -53>>, <<15025, 15116, 12731, 2029, -53, 1755, 15175, 6345, 2040, -53>>,
    <<15026, 15116, 12731, 2029, -53, 1756, 15175, 6345, 2040, -53>>, <<1670, 2002, 12732, 2029, -53, 6356, 160, 6346, 2040, -53>>,
    <<13610, 13087, 12269, 2038, -53, 7154, 5649, 2298, 2044, -53>>, <<5411, 7922, 15086, 2047, -53, 12029, 5931, 15843, 2047, -53>>,
    <<4001, 15834, 16383, 2047, -53, 15320, 16154, 16383, 2047, -53>>, <<0, 0, 0, 1024, -52, 0, 0, 0, 1024, -52>>,
    <<4382, 1649, 0, 1024, -52, 3191, 687, 0, 1024, -52>>, <<1387, 1648, 10249, 1028, -52, 14032, 10178, 15151, 1025, -52>>,
    <<8680, 11911, 8583, 1052, -52, 4540, 678, 12940, 1035, -52>>, <<15859, 14146, 7478, 1154, -52, 2124, 13159, 7579, 1076, -52>>
>>

InvPowIndex(v) ==
    CHOOSE i \in 1..Len(InvPowTable) :
        /\ v.man = <<InvPowTable[i][1], InvPowTable[i][2], InvPowTable[i][3], InvPowTable[i][4]>>
        /\ v.exp = InvPowTable[i][5]

InvPowEntry(e) == [sgn |-> 1, man |-> <<e[6], e[7], e[8], e[9]>>, exp |-> e[10]]

InvPow2_4(v) == InvPowEntry(InvPowTable[InvPowIndex(v)])

_delinearize_out(v) ==
    IF FLe(v, FDec(31308, 10^7)) THEN FMul(v, FDec(1292, 100))
    ELSE FSub(FMul(FDec(1055, 1000), InvPow2_4(v)), FDec(55, 1000))

\* int() in place of round()
_delinearize_trunc(v) == FTrunc(FMul(FMax(F0, FMin(F1, _delinearize_out(v))), F255))

_delinearize(v) == FRoundInt(FMul(FMax(F0, FMin(F1, _delinearize_out(v))), F255))

\* row[0] * rl + row[1] * gl + row[2] * bl
simulate_row(row, rl, gl, bl) ==
    FAdd(FAdd(FMul(row[1], rl), FMul(row[2], gl)), FMul(row[3], bl))

simulate_matrix(matrix, rl, gl, bl) ==
    <<_delinearize(simulate_row(matrix[1], rl, gl, bl)),
      _delinearize(simulate_row(matrix[2], rl, gl, bl)),
      _delinearize(simulate_row(matrix[3], rl, gl, bl))>>

simulate(r, g, b, deficiency) ==
    IF deficiency \notin DOMAIN _MATRICES THEN Raised("ValueError")
    ELSE Returned(simulate_matrix(_MATRICES[deficiency],
                                  _linearize(r), _linearize(g), _linearize(b)))

(***************************************************************************)
(* naming.py                                                               *)
(***************************************************************************)
\* float("inf") among squared distances: above every one of them
Infinity == 3 * 255 * 255 + 1

\* (r - nr) ** 2 + (g - ng) ** 2 + (b - nb) ** 2.  math.sqrt is strictly
\* increasing on these integers in binary64 (distinct arguments give distinct
\* doubles), so the scan compares the arguments of math.sqrt
SquaredDistance(r, g, b, n) ==
    (r - n[1]) * (r - n[1]) + (g - n[2]) * (g - n[2]) + (b - n[3]) * (b - n[3])

ISqrt(n) == CHOOSE k \in 0..442 : k * k <= n /\ n < (k + 1) * (k + 1)

SqrtDigit(p, r) == CHOOSE d \in 0..9 : (20 * p + d) * d <= r /\ (d = 9 \/ (20 * p + d + 1) * (d + 1) > r)

RECURSIVE SqrtDigits(_, _, _)
\* the root p of a square with remainder r, carried k decimal digits further
SqrtDigits(p, r, k) ==
    IF k = 0 THEN p
    ELSE SqrtDigits(10 * p + SqrtDigit(p, 100 * r),
                    100 * r - (20 * p + SqrtDigit(p, 100 * r)) * SqrtDigit(p, 100 * r),
                    k - 1)

\* round(math.sqrt(n), 4) as a count of ten-thousandths: the root to five
\* decimals, rounded on the fifth (the root of an integer is never a tie, and
\* the double math.sqrt returns rounds to the same side as the exact root)
Round4Sqrt(n) == (SqrtDigits(ISqrt(n), n - ISqrt(n) * ISqrt(n), 5) + 5) \div 10

\* the loop body for entry i, with dist the (squared) distance of that entry;
\* best = <<best_name, best_hex, best_dist>>
RECURSIVE find_closest_name_scan(_, _, _, _, _)
\* dist <= best_dist: a later entry at the same distance replaces the best
find_closest_name_entry_last(r, g, b, i, best, name, dist) ==
    IF dist <= best[3]
    THEN IF dist = 0 THEN <<name, NAMED_COLORS[name], dist>>
         ELSE find_closest_name_scan(r, g, b, i + 1, <<name, NAMED_COLORS[name], dist>>)
    ELSE find_closest_name_scan(r, g, b, i + 1, best)

find_closest_name_entry(r, g, b, i, best, name, dist) ==
    IF dist < best[3]
    THEN IF dist = 0 THEN <<name, NAMED_COLORS[name], dist>>
         ELSE find_closest_name_scan(r, g, b, i + 1, <<name, NAMED_COLORS[name], dist>>)
    ELSE find_closest_name_scan(r, g, b, i + 1, best)

find_closest_name_scan(r, g, b, i, best) ==
    IF i > Len(NAMED_COLORS_keys) THEN best
    ELSE find_closest_name_entry(r, g, b, i, best, NAMED_COLORS_keys[i],
             SquaredDistance(r, g, b, hex_to_rgb(NAMED_COLORS[NAMED_COLORS_keys[i]]).val))

NameMatch(best) ==
    [name |-> best[1], hex |-> best[2], distance |-> Round4Sqrt(best[3]), exact |-> best[3] = 0]

find_closest_name(r, g, b) ==
    NameMatch(find_closest_name_scan(r, g, b, 1, <<"", "", Infinity>>))

(***************************************************************************)
(* palettes.py                                                             *)
(***************************************************************************)
\* hsl_to_rgb((h + offset) % 360, s, lit)
\* the lightness halved on the way
PaletteColour_darkened(hsl, offset) == hsl_to_rgb((hsl[1] + offset) % 360, hsl[2], hsl[3] \div 2)

PaletteColour(hsl, offset) == hsl_to_rgb((hsl[1] + offset) % 360, hsl[2], hsl[3])

complementary(r, g, b) == PaletteColour(rgb_to_hsl(r, g, b), 180)

\* the loop started at the colour's own hue
analogous_hsl_forward(hsl, n, step) ==
    [k \in 1..n |-> PaletteColour(hsl, step * (k - 1))]

\* colors after the loop: entry i + 1 at start + step * i
analogous_hsl(hsl, n, step) ==
    [k \in 1..n |-> PaletteColour(hsl, step * (k - 1) - step * (n \div 2))]

analogous(r, g, b, n, step) == analogous_hsl(rgb_to_hsl(r, g, b), n, step)

triadic_hsl(hsl) == <<PaletteColour(hsl, 120), PaletteColour(hsl, 240)>>

triadic(r, g, b) == triadic_hsl(rgb_to_hsl(r, g, b))

split_complementary_hsl(hsl) == <<PaletteColour(hsl, 150), PaletteColour(hsl, 210)>>

split_complementary(r, g, b) == split_complementary_hsl(rgb_to_hsl(r, g, b))

tetradic_hsl(hsl) == <<PaletteColour(hsl, 90), PaletteColour(hsl, 180), PaletteColour(hsl, 270)>>

tetradic(r, g, b) == tetradic_hsl(rgb_to_hsl(r, g, b))

(***************************************************************************)
(* temperature.py                                                          *)
(***************************************************************************)
\* hue 60 and hue 300 left to the cool side
classify_temperature_hsl_strict(hsl) ==
    IF hsl[2] < 10 THEN "neutral"
    ELSE IF hsl[1] < 60 \/ hsl[1] > 300 THEN "warm"
    ELSE "cool"

\* classify_temperature after rgb_to_hsl
classify_temperature_hsl(hsl) ==
    IF hsl[2] < 10 THEN "neutral"
    ELSE IF hsl[1] <= 60 \/ hsl[1] >= 300 THEN "warm"
    ELSE "cool"

classify_temperature(r, g, b) == classify_temperature_hsl(rgb_to_hsl(r, g, b))

(***************************************************************************)
(* The arguments a session draws                                           *)
(***************************************************************************)
ChanStep == 51
MaxComponent == 1000
OutOfRange == 1
MaxSteps == 6
WeightDen == 4

White == <<255, 255, 255>>
Black == <<0, 0, 0>>

\* sampled channel values: a stride through 0..255 and both ends of the range
Chan == {c \in 0..255 : c % ChanStep = 0} \cup {1, 2, 254, 255}
RGB == Chan \X Chan \X Chan

\* a few colours for the two-colour operations
Palette == {Black, White, <<255, 0, 0>>, <<255, 0, 1>>, <<52, 152, 219>>,
            <<128, 128, 128>>, <<2, 228, 230>>, <<0, 255, 0>>, <<0, 0, 255>>,
            <<10, 11, 12>>}

RECURSIVE DecStr(_)
\* str(n) for n >= 0
DecStr(n) == IF n < 10 THEN <<Digits[n + 1]>>
             ELSE DecStr(n \div 10) \o <<Digits[(n % 10) + 1]>>

Pct(on) == IF on THEN <<"%">> ELSE << >>

\* "name(" pad c1 "," pad c2 [%] "," pad c3 [%] pad ")"
FuncText(name, comps, pad, pct) ==
    name \o pad \o DecStr(comps[1]) \o <<",">> \o pad \o DecStr(comps[2]) \o Pct(pct)
         \o <<",">> \o pad \o DecStr(comps[3]) \o Pct(pct) \o pad \o <<")">>

Pads == {<< >>, <<" ">>}
RgbComps == {0, 7, 255, 256, 999, MaxComponent}
HueComps == {0, 120, 300, 360, 999}
PctComps == {0, 50, 100, 100 + OutOfRange, 999}
HexChars3 == {"0", "9", "a", "F"}
Hex6 == {<<"3", "4", "9", "8", "d", "b">>, <<"F", "F", "0", "0", "0", "0">>,
         <<"6", "4", "9", "5", "e", "d">>}
Names == {<<"r", "e", "d">>, <<"R", "E", "D">>, <<" ", "R", "e", "d", " ">>,
          <<"t", "a", "n">>, <<"w", "h", "i", "t", "e", "\n">>}
Junk == {<< >>, <<"#", "1", "2">>, <<"#", "x", "y", "z">>, <<"#", "#", "f", "f", "f">>,
         <<"1", "2", "3", "4">>, <<"r", "e", "d", "d">>, <<"r", "g", "b", "(", "1", ",", "2", ")">>,
         <<"R", "G", "B", "(", "1", ",", "2", ",", "3", ")">>,
         <<"r", "g", "b", "(", "-", "1", ",", "2", ",", "3", ")">>,
         <<"h", "s", "l", "(", "1", "%", ",", "2", ",", "3", ")">>,
         <<"f", "f", " ", "f">>}
IntArgs == {-OutOfRange, 0, 128, 255, 255 + OutOfRange}
HueArgs == {-OutOfRange, 0, 180, 360, 360 + OutOfRange, 400}
PctArgs == {-OutOfRange, 0, 50, 100, 100 + OutOfRange}

\* mix weights num / WeightDen, from -1.0 to 2.0
WeightNums == (-WeightDen)..(2 * WeightDen)
Weight(num) == FDiv(FInt(num), FInt(WeightDen))

ConstructTextCalls ==
    {[fn |-> "Color", form |-> "hex", args |-> <<PyStr(h \o <<a, b, c>>)>>] :
        h \in {<< >>, <<"#">>}, a \in HexChars3, b \in HexChars3, c \in HexChars3}
    \cup
    {[fn |-> "Color", form |-> "hex", args |-> <<PyStr(h \o d)>>] :
        h \in {<< >>, <<"#">>}, d \in Hex6}
    \cup
    {[fn |-> "Color", form |-> "name", args |-> <<PyStr(n)>>] : n \in Names}
    \cup
    {[fn |-> "Color", form |-> "junk", args |-> <<PyStr(j)>>] : j \in Junk}

ConstructNameCalls ==
    {[fn |-> "from_name", form |-> "name", args |-> <<n>>] :
        n \in Names \cup {<<"r", "e", "d", "d">>}}
    \cup
    {[fn |-> "random", form |-> "none", args |-> << >>]}

\* argument lists of the wrong arity or type
ConstructOddArgs ==
    << << >>, <<PyInt(42)>>, <<PyFloat(1)>>, <<PyInt(1), PyInt(2)>>,
       <<PyInt(1), PyInt(2), PyInt(3), PyInt(4)>>,
       <<PyBool(TRUE), PyInt(0), PyInt(0)>>, <<PyInt(0), PyFloat(1), PyInt(0)>>,
       <<PyStr(<<"f", "f", "f">>), PyInt(0), PyInt(0)>> >>

ConstructRgbTextCalls ==
    {[fn |-> "Color", form |-> "rgb", comps |-> c,
      args |-> <<PyStr(FuncText(RgbFuncName, c, p, FALSE))>>] :
        c \in RgbComps \X RgbComps \X RgbComps, p \in Pads}

ConstructHslTextCalls ==
    {[fn |-> "Color", form |-> "hsl", comps |-> c,
      args |-> <<PyStr(FuncText(HslFuncName, c, p, q))>>] :
        c \in HueComps \X PctComps \X PctComps, p \in Pads, q \in BOOLEAN}

ConstructIntCalls ==
    {[fn |-> "Color", form |-> "ints", args |-> <<PyInt(c[1]), PyInt(c[2]), PyInt(c[3])>>] :
        c \in IntArgs \X IntArgs \X IntArgs}

FromHslCalls ==
    {[fn |-> "from_hsl", form |-> "ints", args |-> c] : c \in HueArgs \X PctArgs \X PctArgs}

FromCmykCalls ==
    {[fn |-> "from_cmyk", form |-> "ints", args |-> c] :
        c \in PctArgs \X PctArgs \X PctArgs \X PctArgs}

HexCalls == {[fn |-> "rgb_to_hex", args |-> c] : c \in RGB}

HslCalls == {[fn |-> "rgb_to_hsl", args |-> c] : c \in RGB \cup Palette}

MixCalls ==
    {[fn |-> "mix", num |-> k, args |-> <<a, b, Weight(k)>>] :
        a \in Palette, b \in Palette, k \in WeightNums}

GradientCalls ==
    {[fn |-> "gradient", args |-> <<a, b, n>>] :
        a \in Palette, b \in Palette, n \in (-1)..MaxSteps}

BlendCalls ==
    {[fn |-> "blend", args |-> <<a, b, m>>] :
        a \in {White, Black}, b \in RGB, m \in {"multiply"}}
    \cup
    {[fn |-> "blend", args |-> <<c, c, "difference">>] : c \in RGB}
    \cup
    {[fn |-> "blend", args |-> <<a, b, m>>] :
        a \in Palette, b \in Palette, m \in _MODES \cup {"add"}}

HardLightCalls ==
    {[fn |-> "blend", args |-> <<a, b, "hard_light">>] : a \in Palette, b \in RGB}

ContrastCalls ==
    {[fn |-> "contrast_ratio", args |-> <<a, b>>] : a \in Palette, b \in Palette}

\* the colours simulate is applied to
SimColours == Palette \cup {<<255, 255, 0>>, <<0, 255, 255>>, <<255, 0, 255>>,
                            <<1, 1, 1>>, <<254, 254, 254>>, <<200, 100, 50>>}

Deficiencies == {"protanopia", "deuteranopia", "tritanopia", "achromatopsia"}

SimulateCalls ==
    {[fn |-> "simulate", args |-> <<c[1], c[2], c[3], d>>] :
        c \in SimColours, d \in Deficiencies}

ClosestNameCalls == {[fn |-> "find_closest_name", args |-> c] : c \in RGB \cup Palette}

\* amounts for lighten / darken and for saturate / desaturate
LightAmounts == {1, 10, 100}
SatAmounts == {0, 10, 100}

LightnessCalls ==
    {[fn |-> f, args |-> <<c[1], c[2], c[3], a>>] :
        f \in {"lighten", "darken"}, c \in RGB \cup Palette, a \in LightAmounts}

SaturationCalls ==
    {[fn |-> f, args |-> <<c[1], c[2], c[3], a>>] :
        f \in {"saturate", "desaturate"}, c \in RGB \cup Palette, a \in SatAmounts}

RotateCalls ==
    {[fn |-> "rotate_hue", args |-> <<c[1], c[2], c[3], 180>>] : c \in RGB \cup Palette}

\* every gray, and the sampled colours
GrayscaleCalls ==
    {[fn |-> "grayscale", args |-> <<v, v, v>>] : v \in 0..255}
    \cup {[fn |-> "grayscale", args |-> c] : c \in RGB \cup Palette}

\* a session that applies one transformation after another to a colour, up
\* to MaxChain of them; the arguments of a transformation are drawn by its
\* place in the sequence
MaxChain == 2
ChainStarts == {<<52, 152, 219>>, <<255, 0, 1>>}
ChainAmounts == <<-20, 150, 30>>
ChainDegrees == <<-90, 400, 45>>
ChainWeights == <<1, 2 * WeightDen, -1, 3>>
ChainTops == <<<<255, 102, 0>>, <<10, 11, 12>>>>
ChainModes == {"multiply", "screen", "overlay", "hard_light", "difference"}

ChainCalls == {[fn |-> "chain", args |-> c, colour |-> c, count |-> 0] : c \in ChainStarts}

\* HSL triples to convert and read back: every lightness, at sampled hues and
\* saturations; and colours to lighten and darken
TripleHues == {0, 59, 60, 180, 300, 360}
TripleSaturations == {0, 1, 50, 100}

HslTripleCalls ==
    {[fn |-> "hsl_to_rgb", args |-> <<h, s, l>>] :
        h \in TripleHues, s \in TripleSaturations, l \in 0..100}
    \cup
    {[fn |-> f, args |-> <<c[1], c[2], c[3], a>>] :
        f \in {"lighten", "darken"}, c \in Palette, a \in LightAmounts \cup {0}}

\* colours to invert: every gray, and the sampled colours
InvertCalls ==
    {[fn |-> "invert", args |-> <<v, v, v>>] : v \in 0..255}
    \cup {[fn |-> "invert", args |-> c] : c \in RGB \cup Palette}

TemperatureCalls ==
    {[fn |-> "classify_temperature", args |-> c] : c \in RGB \cup Palette}
    \cup {[fn |-> "classify_temperature", args |-> <<v, v, v>>] : v \in 0..255}

PaletteFns == {"complementary", "analogous", "triadic", "split_complementary", "tetradic"}

PaletteCalls == {[fn |-> f, args |-> c] : f \in PaletteFns, c \in RGB \cup Palette}

\* the colours whose palettes are compared with rotations
RotationColours == Palette \cup {c \in RGB : c[3] \in {0, 255}}

AnalogousCounts == 0..4
AnalogousSteps == {30, 45}

\* each palette function, analogous with explicit n and step
PaletteRotationCalls ==
    {[fn |-> f, args |-> c, n |-> 3, step |-> 30] :
        f \in PaletteFns \ {"analogous"}, c \in RotationColours}
    \cup
    {[fn |-> "analogous_with", args |-> c, n |-> n, step |-> s] :
        c \in RotationColours, n \in AnalogousCounts, s \in AnalogousSteps}

\* the rotations a palette is compared with, one for each of its colours
RotationDegrees(fn, n, step) ==
    CASE fn = "complementary"       -> <<180>>
      [] fn = "triadic"             -> <<120, 240>>
      [] fn = "split_complementary" -> <<150, 210>>
      [] fn = "tetradic"            -> <<90, 180, 270>>
      [] fn = "analogous_with"      -> [k \in 1..n |-> step * ((k - 1) - (n \div 2))]

(***************************************************************************)
(* exceptions.py, and the builtin exception classes the library raises     *)
(***************************************************************************)
\* the base of each class
Bases ==
    [ColorBrewError |-> "Exception", ColorValueError |-> "ColorBrewError",
     ColorParseError |-> "ColorBrewError", ValueError |-> "Exception",
     TypeError |-> "Exception", Exception |-> "BaseException"]

RECURSIVE IsSubclass(_, _)
\* issubclass(cls, base)
IsSubclass(cls, base) ==
    cls = base \/ (cls \in DOMAIN Bases /\ IsSubclass(Bases[cls], base))

(***************************************************************************)
(* css_output.py: CSS function strings                                     *)
(***************************************************************************)
\* an alpha argument: an int or a float written in tenths, the float nan
\* (type "nan"), or a value of another type
PyTenths(t, n) == [type |-> t, tenths |-> n]

\* isinstance(a, (int, float))
IsIntOrFloat(a) == a.type \in {"int", "float", "nan"}

\* a < 0.0 or a > 1.0; every comparison with nan is False
OutsideUnit(a) == a.type # "nan" /\ (a.tenths < 0 \/ a.tenths > 10)

\* f"{a}" for an alpha that passed _validate_alpha: str() of an int, repr()
\* of a float
AlphaText(a) ==
    IF a.type = "nan" THEN <<"n", "a", "n">>
    ELSE IF a.type = "int" THEN DecStr(a.tenths \div 10)
    ELSE DecStr(a.tenths \div 10) \o <<".">> \o DecStr(a.tenths % 10)

_validate_alpha_family(a) ==
    IF ~IsIntOrFloat(a) \/ OutsideUnit(a)
    THEN Raised("ColorValueError") ELSE Returned(None)

_validate_alpha(a) ==
    IF ~IsIntOrFloat(a) \/ OutsideUnit(a)
    THEN Raised("ValueError") ELSE Returned(None)

to_css_rgb(r, g, b) ==
    <<"r", "g", "b", "(">> \o DecStr(r) \o <<",", " ">> \o DecStr(g)
        \o <<",", " ">> \o DecStr(b) \o <<")">>

to_css_rgba(r, g, b, a) ==
    IF _validate_alpha(a).exc # "none" THEN _validate_alpha(a)
    ELSE Returned(<<"r", "g", "b", "a", "(">> \o DecStr(r) \o <<",", " ">> \o DecStr(g)
                      \o <<",", " ">> \o DecStr(b) \o <<",", " ">> \o AlphaText(a) \o <<")">>)

to_css_hsl_text(hsl) ==
    <<"h", "s", "l", "(">> \o DecStr(hsl[1]) \o <<",", " ">> \o DecStr(hsl[2])
        \o <<"%", ",", " ">> \o DecStr(hsl[3]) \o <<"%", ")">>

to_css_hsl(r, g, b) == to_css_hsl_text(rgb_to_hsl(r, g, b))

to_css_hsla_text(hsl, a) ==
    <<"h", "s", "l", "a", "(">> \o DecStr(hsl[1]) \o <<",", " ">> \o DecStr(hsl[2])
        \o <<"%", ",", " ">> \o DecStr(hsl[3]) \o <<"%", ",", " ">> \o AlphaText(a) \o <<")">>

to_css_hsla(r, g, b, a) ==
    IF _validate_alpha(a).exc # "none" THEN _validate_alpha(a)
    ELSE Returned(to_css_hsla_text(rgb_to_hsl(r, g, b), a))

(***************************************************************************)
(* color.py: the properties and methods of a Color instance                *)
(***************************************************************************)
\* the attributes of an instance, all of them cleared
Slots_cleared(self) == [_rgb |-> <<0, 0, 0>>]

\* the attributes of an instance: __slots__ names _rgb and nothing else
Slots(self) == [_rgb |-> self._rgb]

\* isinstance(v, Color)
IsColor(v) == "_rgb" \in DOMAIN v

NotImplemented == "NotImplemented"

Color_r(self) == self._rgb[1]
Color_g(self) == self._rgb[2]
Color_b(self) == self._rgb[3]
Color_rgb(self) == self._rgb
Color_hex(self) == rgb_to_hex(self._rgb[1], self._rgb[2], self._rgb[3])
Color_hsl(self) == rgb_to_hsl(self._rgb[1], self._rgb[2], self._rgb[3])
Color_cmyk(self) == rgb_to_cmyk(self._rgb[1], self._rgb[2], self._rgb[3])
Color_css_hex(self) == Color_hex(self)
Color_css_rgb(self) == to_css_rgb(self._rgb[1], self._rgb[2], self._rgb[3])
Color_css_hsl(self) == to_css_hsl(self._rgb[1], self._rgb[2], self._rgb[3])
Color_css_rgba(self, alpha) == to_css_rgba(self._rgb[1], self._rgb[2], self._rgb[3], alpha)
Color_css_hsla(self, alpha) == to_css_hsla(self._rgb[1], self._rgb[2], self._rgb[3], alpha)

Color__repr__(self) ==
    <<"C", "o", "l", "o", "r", "(", "'">> \o Color_hex(self) \o <<"'", ")">>

Color__str__(self) == Color_hex(self)

\* the red channels compared and no more
Color__eq___red(self, other) ==
    IF ~IsColor(other) THEN NotImplemented ELSE self._rgb[1] = other._rgb[1]

Color__eq__(self, other) ==
    IF ~IsColor(other) THEN NotImplemented ELSE self._rgb = other._rgb

\* self == other, for an other whose own __eq__ does not know Color: after
\* NotImplemented from both sides the interpreter compares identities
PyEq(self, other) ==
    IF ~IsColor(other) THEN FALSE ELSE Color__eq__(self, other)

\* hash() of a tuple of ints is a function of its elements and nothing else
TupleHash(t) == [hash |-> t]

Color__hash__(self) == TupleHash(self._rgb)

\* the values the iterator yields, in order
Color__iter__(self) == self._rgb

Color__format__(self, format_spec) ==
    IF format_spec = << >> \/ format_spec = <<"h", "e", "x">> THEN Returned(Color_hex(self))
    ELSE IF format_spec = <<"r", "g", "b">> THEN Returned(Color_css_rgb(self))
    ELSE IF format_spec = <<"h", "s", "l">> THEN Returned(Color_css_hsl(self))
    ELSE Raised("ValueError")

\* the alpha arguments a session draws
Alphas ==
    {PyTenths("float", -1), PyTenths("float", 0), PyTenths("float", 5),
     PyTenths("float", 8), PyTenths("float", 10), PyTenths("float", 11),
     PyTenths("int", -10), PyTenths("int", 0), PyTenths("int", 10),
     PyTenths("int", 20), PyTenths("str", 5), PyTenths("nan", 0)}

FormatSpecs ==
    {<< >>, <<"h", "e", "x">>, <<"r", "g", "b">>, <<"h", "s", "l">>,
     <<"H", "E", "X">>, <<"x">>}

\* what a Color is compared with that is no Color
NonColors == <<PyStr(<<"#", "f", "f", "0", "0", "0", "0">>), PyInt(0)>>

\* the ways the session comes by the two values it compares: the first five
\* construct red, the next five construct other colours, the last three are
\* values that are no Color
Routes ==
    << [fn |-> "Color", args |-> <<PyStr(<<"#", "f", "f", "0", "0", "0", "0">>)>>],
       [fn |-> "Color", args |-> <<PyInt(255), PyInt(0), PyInt(0)>>],
       [fn |-> "Color", args |-> <<PyStr(<<"r", "e", "d">>)>>],
       [fn |-> "Color", args |-> <<PyStr(<<"r", "g", "b", "(", "2", "5", "5", ",", " ",
                                          "0", ",", " ", "0", ")">>)>>],
       [fn |-> "from_name", args |-> <<PyStr(<<"R", "E", "D">>)>>],
       [fn |-> "Color", args |-> <<PyInt(255), PyInt(0), PyInt(1)>>],
       [fn |-> "Color", args |-> <<PyInt(0), PyInt(0), PyInt(255)>>],
       [fn |-> "Color", args |-> <<PyStr(<<"b", "l", "u", "e">>)>>],
       [fn |-> "Color", args |-> <<PyStr(<<"#", "0", "0", "f">>)>>],
       [fn |-> "Color", args |-> <<PyInt(0), PyInt(0), PyInt(0)>>],
       [fn |-> "value", args |-> <<PyStr(<<"#", "f", "f", "0", "0", "0", "0">>)>>],
       [fn |-> "value", args |-> <<[type |-> "tuple", val |-> <<255, 0, 0>>]>>],
       [fn |-> "value", args |-> <<PyInt(0)>>] >>

RedRoutes == 1..5
ColorRoutes == 1..10

\* the value a route yields: the instance constructed, or the value itself
RouteInstance(res) == IF res.exc = "none" THEN Returned([_rgb |-> res.val]) ELSE res

RouteValue(route) ==
    IF route.fn = "Color" THEN RouteInstance(Color__init__(route.args))
    ELSE IF route.fn = "from_name" THEN RouteInstance(from_name(route.args[1].val))
    ELSE Returned(route.args[1])

\* left == right, then hash(left) and hash(right)
EqualityCalls ==
    {[fn |-> "==", left |-> i, right |-> j] : i \in ColorRoutes, j \in DOMAIN Routes}

\* the CSS forms that take an alpha, as functions and as methods of Color(c)
CssAlphaFns == {"to_css_rgba", "to_css_hsla", "css_rgba", "css_hsla"}

CssAlphaCalls ==
    {[fn |-> f, args |-> c, alpha |-> a] : f \in CssAlphaFns, c \in Palette, a \in Alphas}

\* an instance after Color(r, g, b), whose methods the session calls
InstanceCalls ==
    {[fn |-> "method", args |-> c, self |-> [_rgb |-> c]] : c \in Palette}

(***************************************************************************)
(* The session                                                             *)
(***************************************************************************)
Entry(fn, res) == [fn |-> fn, exc |-> res.exc, val |-> res.val]

Start(calls) == call \in calls /\ log = << >>

\* the entry point the caller named has not been applied yet
Entered(fn) == log = << >> /\ call.fn = fn

\* the one call made so far was to fn and returned
Returning(fn) == Len(log) = 1 /\ log[1].fn = fn /\ log[1].exc = "none"

\* the call to fn ends with res
Reply(fn, res) == log' = Append(log, Entry(fn, res)) /\ UNCHANGED call

ColorNew ==
    /\ Entered("Color")
    /\ Reply("Color", Color__init__(call.args))

ColorFromHsl ==
    /\ Entered("from_hsl")
    /\ Reply("from_hsl", from_hsl(call.args[1], call.args[2], call.args[3]))

ColorFromCmyk ==
    /\ Entered("from_cmyk")
    /\ Reply("from_cmyk", from_cmyk(call.args[1], call.args[2], call.args[3], call.args[4]))

ColorFromName ==
    /\ Entered("from_name")
    /\ Reply("from_name", from_name(call.args[1]))

\* random.randint(0, 255) for each channel
ColorRandom ==
    /\ Entered("random")
    /\ \E r \in Chan, g \in Chan, b \in Chan :
           Reply("random", Color__init__(<<PyInt(r), PyInt(g), PyInt(b)>>))

RgbToHex ==
    /\ Entered("rgb_to_hex")
    /\ Reply("rgb_to_hex", Returned(rgb_to_hex(call.args[1], call.args[2], call.args[3])))

\* the hex string just produced is converted back
HexToRgb ==
    /\ Returning("rgb_to_hex")
    /\ Reply("hex_to_rgb", hex_to_rgb(log[1].val))

RgbToHsl ==
    /\ Entered("rgb_to_hsl")
    /\ Reply("rgb_to_hsl", Returned(rgb_to_hsl(call.args[1], call.args[2], call.args[3])))

\* the HSL tuple just produced is converted back
HslToRgb ==
    /\ Returning("rgb_to_hsl")
    /\ Reply("hsl_to_rgb", Returned(hsl_to_rgb(log[1].val[1], log[1].val[2], log[1].val[3])))

Mix ==
    /\ Entered("mix")
    /\ Reply("mix", Returned(mix(call.args[1], call.args[2], call.args[3])))

Gradient ==
    /\ Entered("gradient")
    /\ Reply("gradient", Returned(gradient(call.args[1], call.args[2], call.args[3])))

Blend ==
    /\ Entered("blend")
    /\ Reply("blend", blend(call.args[1], call.args[2], call.args[3]))

\* after blend(a, b, "hard_light"): blend(b, a, "overlay")
BlendSwappedOverlay ==
    /\ Returning("blend")
    /\ call.args[3] = "hard_light"
    /\ Reply("blend", blend(call.args[2], call.args[1], "overlay"))

ContrastRatio ==
    /\ Entered("contrast_ratio")
    /\ Reply("contrast_ratio", Returned(contrast_ratio(call.args[1], call.args[2])))

\* the same two colours in the other order
ContrastRatioSwapped ==
    /\ Returning("contrast_ratio")
    /\ Reply("contrast_ratio", Returned(contrast_ratio(call.args[2], call.args[1])))

Simulate ==
    /\ Entered("simulate")
    /\ Reply("simulate", simulate(call.args[1], call.args[2], call.args[3], call.args[4]))

FindClosestName ==
    /\ Entered("find_closest_name")
    /\ Reply("find_closest_name",
             Returned(find_closest_name(call.args[1], call.args[2], call.args[3])))

Lighten ==
    /\ Entered("lighten")
    /\ Reply("lighten", Returned(lighten(call.args[1], call.args[2], call.args[3], call.args[4])))

Darken ==
    /\ Entered("darken")
    /\ Reply("darken", Returned(darken(call.args[1], call.args[2], call.args[3], call.args[4])))

Saturate ==
    /\ Entered("saturate")
    /\ Reply("saturate", Returned(saturate(call.args[1], call.args[2], call.args[3], call.args[4])))

Desaturate ==
    /\ Entered("desaturate")
    /\ Reply("desaturate",
             Returned(desaturate(call.args[1], call.args[2], call.args[3], call.args[4])))

RotateHue ==
    /\ Entered("rotate_hue")
    /\ Reply("rotate_hue",
             Returned(rotate_hue(call.args[1], call.args[2], call.args[3], call.args[4])))

\* the colour just returned is rotated by the same angle again
RotateHueAgain ==
    /\ Returning("rotate_hue")
    /\ Reply("rotate_hue",
             Returned(rotate_hue(log[1].val[1], log[1].val[2], log[1].val[3], call.args[4])))

Grayscale ==
    /\ Entered("grayscale")
    /\ Reply("grayscale", Returned(grayscale(call.args[1], call.args[2], call.args[3])))

\* the gray just produced is made gray again
GrayscaleAgain ==
    /\ Returning("grayscale")
    /\ Reply("grayscale", Returned(grayscale(log[1].val[1], log[1].val[2], log[1].val[3])))

Invert ==
    /\ Entered("invert")
    /\ Reply("invert", Returned(invert(call.args[1], call.args[2], call.args[3])))

\* the inverse just produced is inverted
InvertAgain ==
    /\ Returning("invert")
    /\ Reply("invert", Returned(invert(log[1].val[1], log[1].val[2], log[1].val[3])))

Complementary ==
    /\ Entered("complementary")
    /\ Reply("complementary",
             Returned(complementary(call.args[1], call.args[2], call.args[3])))

\* analogous with its defaults n = 3, step = 30
Analogous ==
    /\ Entered("analogous")
    /\ Reply("analogous", Returned(analogous(call.args[1], call.args[2], call.args[3], 3, 30)))

Triadic ==
    /\ Entered("triadic")
    /\ Reply("triadic", Returned(triadic(call.args[1], call.args[2], call.args[3])))

SplitComplementary ==
    /\ Entered("split_complementary")
    /\ Reply("split_complementary",
             Returned(split_complementary(call.args[1], call.args[2], call.args[3])))

Tetradic ==
    /\ Entered("tetradic")
    /\ Reply("tetradic", Returned(tetradic(call.args[1], call.args[2], call.args[3])))

ClassifyTemperature ==
    /\ Entered("classify_temperature")
    /\ Reply("classify_temperature",
             Returned(classify_temperature(call.args[1], call.args[2], call.args[3])))

\* the session that compares two values has made n of its calls
Comparing(n) == call.fn = "==" /\ Len(log) = n /\ \A i \in DOMAIN log : log[i].exc = "none"

EqLeft == Comparing(0) /\ Reply("left", RouteValue(Routes[call.left]))

EqRight == Comparing(1) /\ Reply("right", RouteValue(Routes[call.right]))

Eq == Comparing(2) /\ Reply("Color.__eq__", Returned(PyEq(log[1].val, log[2].val)))

HashLeft == Comparing(3) /\ Reply("Color.__hash__", Returned(Color__hash__(log[1].val)))

HashRight ==
    /\ Comparing(4)
    /\ IsColor(log[2].val)
    /\ Reply("Color.__hash__", Returned(Color__hash__(log[2].val)))

ToCssRgba ==
    /\ Entered("to_css_rgba")
    /\ Reply("to_css_rgba", to_css_rgba(call.args[1], call.args[2], call.args[3], call.alpha))

ToCssHsla ==
    /\ Entered("to_css_hsla")
    /\ Reply("to_css_hsla", to_css_hsla(call.args[1], call.args[2], call.args[3], call.alpha))

\* Color(r, g, b).css_rgba(alpha)
CssRgbaOf ==
    /\ Entered("css_rgba")
    /\ Reply("css_rgba", Color_css_rgba([_rgb |-> call.args], call.alpha))

\* Color(r, g, b).css_hsla(alpha)
CssHslaOf ==
    /\ Entered("css_hsla")
    /\ Reply("css_hsla", Color_css_hsla([_rgb |-> call.args], call.alpha))

\* analogous(r, g, b, n, step)
AnalogousWith ==
    /\ Entered("analogous_with")
    /\ Reply("analogous_with",
             Returned(analogous(call.args[1], call.args[2], call.args[3], call.n, call.step)))

\* after a palette: rotate_hue of the same colour by each of the degrees the
\* palette is compared with
RotateHueEach ==
    /\ Len(log) = 1
    /\ "n" \in DOMAIN call
    /\ log[1].fn = call.fn
    /\ Reply("rotate_hue",
             Returned([k \in DOMAIN RotationDegrees(call.fn, call.n, call.step) |->
                          rotate_hue(call.args[1], call.args[2], call.args[3],
                                     RotationDegrees(call.fn, call.n, call.step)[k])]))

\* the session transforms a colour and may still transform it
Chaining == call.fn = "chain" /\ call.count < MaxChain

\* the transformation fn has turned the session's colour into res; of the
\* transformations the log keeps the latest
Chained(fn, res) ==
    /\ log' = <<Entry(fn, Returned(res))>>
    /\ call' = [call EXCEPT !.colour = res, !.count = @ + 1]

\* the argument the next transformation draws from args
Drawn(args) == args[(call.count % Len(args)) + 1]

ThenLighten ==
    /\ Chaining
    /\ Chained("lighten", lighten(call.colour[1], call.colour[2], call.colour[3],
                                  Drawn(ChainAmounts)))

ThenDarken ==
    /\ Chaining
    /\ Chained("darken", darken(call.colour[1], call.colour[2], call.colour[3],
                                Drawn(ChainAmounts)))

ThenSaturate ==
    /\ Chaining
    /\ Chained("saturate", saturate(call.colour[1], call.colour[2], call.colour[3],
                                    Drawn(ChainAmounts)))

ThenDesaturate ==
    /\ Chaining
    /\ Chained("desaturate", desaturate(call.colour[1], call.colour[2], call.colour[3],
                                        Drawn(ChainAmounts)))

ThenRotateHue ==
    /\ Chaining
    /\ Chained("rotate_hue", rotate_hue(call.colour[1], call.colour[2], call.colour[3],
                                        Drawn(ChainDegrees)))

ThenInvert ==
    /\ Chaining
    /\ Chained("invert", invert(call.colour[1], call.colour[2], call.colour[3]))

ThenGrayscale ==
    /\ Chaining
    /\ Chained("grayscale", grayscale(call.colour[1], call.colour[2], call.colour[3]))

ThenMix ==
    /\ Chaining
    /\ Chained("mix", mix(call.colour, Drawn(ChainTops), Weight(Drawn(ChainWeights))))

ThenShade ==
    /\ Chaining
    /\ Chained("shade", shade(call.colour[1], call.colour[2], call.colour[3],
                              Weight(Drawn(ChainWeights))))

ThenTint ==
    /\ Chaining
    /\ Chained("tint", tint(call.colour[1], call.colour[2], call.colour[3],
                            Weight(Drawn(ChainWeights))))

ThenTone ==
    /\ Chaining
    /\ Chained("tone", tone(call.colour[1], call.colour[2], call.colour[3],
                            Weight(Drawn(ChainWeights))))

ThenBlend ==
    /\ Chaining
    /\ \E m \in ChainModes :
           Chained("blend", blend(call.colour, Drawn(ChainTops), m).val)

ThenComplementary ==
    /\ Chaining
    /\ Chained("complementary",
               complementary(call.colour[1], call.colour[2], call.colour[3]))

\* one colour of the palette is transformed further
ThenAnalogous ==
    /\ Chaining
    /\ Chained("analogous",
               Drawn(analogous(call.colour[1], call.colour[2], call.colour[3], 3, 30)))

ThenTriadic ==
    /\ Chaining
    /\ Chained("triadic", Drawn(triadic(call.colour[1], call.colour[2], call.colour[3])))

ThenSplitComplementary ==
    /\ Chaining
    /\ Chained("split_complementary",
               Drawn(split_complementary(call.colour[1], call.colour[2], call.colour[3])))

ThenTetradic ==
    /\ Chaining
    /\ Chained("tetradic", Drawn(tetradic(call.colour[1], call.colour[2], call.colour[3])))

HslToRgbOf ==
    /\ Entered("hsl_to_rgb")
    /\ Reply("hsl_to_rgb", Returned(hsl_to_rgb(call.args[1], call.args[2], call.args[3])))

\* the RGB tuple just produced is converted back
RgbToHslBack ==
    /\ Returning("hsl_to_rgb")
    /\ Reply("rgb_to_hsl", Returned(rgb_to_hsl(log[1].val[1], log[1].val[2], log[1].val[3])))

\* the session holds an instance rather than a call to a module function
OnInstance == call.fn = "method"

\* the instance answers with res; of the calls on an instance the log keeps
\* the latest, and the instance is left with the attributes it has
Member(name, res) ==
    /\ log' = <<Entry(name, res)>>
    /\ call' = [call EXCEPT !.self = Slots(call.self)]

ColorR == OnInstance /\ Member("Color.r", Returned(Color_r(call.self)))

ColorG == OnInstance /\ Member("Color.g", Returned(Color_g(call.self)))

ColorB == OnInstance /\ Member("Color.b", Returned(Color_b(call.self)))

ColorRgb == OnInstance /\ Member("Color.rgb", Returned(Color_rgb(call.self)))

ColorHex == OnInstance /\ Member("Color.hex", Returned(Color_hex(call.self)))

ColorHsl == OnInstance /\ Member("Color.hsl", Returned(Color_hsl(call.self)))

ColorCmyk == OnInstance /\ Member("Color.cmyk", Returned(Color_cmyk(call.self)))

ColorCssHex == OnInstance /\ Member("Color.css_hex", Returned(Color_css_hex(call.self)))

ColorCssRgb == OnInstance /\ Member("Color.css_rgb", Returned(Color_css_rgb(call.self)))

ColorCssHsl == OnInstance /\ Member("Color.css_hsl", Returned(Color_css_hsl(call.self)))

ColorCssRgba ==
    /\ OnInstance
    /\ \E alpha \in Alphas : Member("Color.css_rgba", Color_css_rgba(call.self, alpha))

ColorCssHsla ==
    /\ OnInstance
    /\ \E alpha \in Alphas : Member("Color.css_hsla", Color_css_hsla(call.self, alpha))

ColorRepr == OnInstance /\ Member("Color.__repr__", Returned(Color__repr__(call.self)))

ColorStr == OnInstance /\ Member("Color.__str__", Returned(Color__str__(call.self)))

\* self == other for another Color
ColorEq ==
    /\ OnInstance
    /\ \E c \in Palette : Member("Color.__eq__", Returned(PyEq(call.self, [_rgb |-> c])))

\* self == other for something that is no Color
ColorEqOther ==
    /\ OnInstance
    /\ \E i \in DOMAIN NonColors :
           Member("Color.__eq__", Returned(PyEq(call.self, NonColors[i])))

ColorHash == OnInstance /\ Member("Color.__hash__", Returned(Color__hash__(call.self)))

ColorIter == OnInstance /\ Member("Color.__iter__", Returned(Color__iter__(call.self)))

ColorFormat ==
    /\ OnInstance
    /\ \E format_spec \in FormatSpecs :
           Member("Color.__format__", Color__format__(call.self, format_spec))

InitConstruct ==
    \/ Start(ConstructTextCalls)
    \/ Start(ConstructNameCalls)
    \/ \E i \in 1..Len(ConstructOddArgs) :
           /\ call = [fn |-> "Color", form |-> "args", args |-> ConstructOddArgs[i]]
           /\ log = << >>
    \/ Start(ConstructRgbTextCalls)
    \/ Start(ConstructHslTextCalls)
    \/ Start(ConstructIntCalls)
    \/ Start(FromHslCalls)
    \/ Start(FromCmykCalls)
NextConstruct ==
    \/ ColorNew
    \/ ColorFromHsl
    \/ ColorFromCmyk
    \/ ColorFromName
    \/ ColorRandom
SpecConstruct == InitConstruct /\ [][NextConstruct]_vars

InitHex == Start(HexCalls)
NextHex == RgbToHex \/ HexToRgb
SpecHex == InitHex /\ [][NextHex]_vars

InitHsl == Start(HslCalls)
NextHsl == RgbToHsl \/ HslToRgb
SpecHsl == InitHsl /\ [][NextHsl]_vars

InitMix == Start(MixCalls) \/ Start(GradientCalls)
NextMix == Mix \/ Gradient
SpecMix == InitMix /\ [][NextMix]_vars

InitBlend == Start(BlendCalls)
NextBlend == Blend
SpecBlend == InitBlend /\ [][NextBlend]_vars

InitContrast == Start(ContrastCalls)
NextContrast == ContrastRatio \/ ContrastRatioSwapped
SpecContrast == InitContrast /\ [][NextContrast]_vars

InitSimulate == Start(SimulateCalls)
NextSimulate == Simulate
SpecSimulate == InitSimulate /\ [][NextSimulate]_vars

InitNaming == Start(ClosestNameCalls)
NextNaming == FindClosestName
SpecNaming == InitNaming /\ [][NextNaming]_vars

InitLightness == Start(LightnessCalls)
NextLightness == Lighten \/ Darken
SpecLightness == InitLightness /\ [][NextLightness]_vars

InitSaturation == Start(SaturationCalls)
NextSaturation == Saturate \/ Desaturate
SpecSaturation == InitSaturation /\ [][NextSaturation]_vars

InitRotate == Start(RotateCalls)
NextRotate == RotateHue \/ RotateHueAgain
SpecRotate == InitRotate /\ [][NextRotate]_vars

InitGrayscale == Start(GrayscaleCalls)
NextGrayscale == Grayscale
SpecGrayscale == InitGrayscale /\ [][NextGrayscale]_vars

InitPalette == Start(PaletteCalls)
NextPalette ==
    \/ Complementary
    \/ Analogous
    \/ Triadic
    \/ SplitComplementary
    \/ Tetradic
SpecPalette == InitPalette /\ [][NextPalette]_vars

InitTemperature == Start(TemperatureCalls)
NextTemperature == ClassifyTemperature
SpecTemperature == InitTemperature /\ [][NextTemperature]_vars

InitEquality == Start(EqualityCalls)
NextEquality == EqLeft \/ EqRight \/ Eq \/ HashLeft \/ HashRight
SpecEquality == InitEquality /\ [][NextEquality]_vars

InitCssAlpha == Start(CssAlphaCalls)
NextCssAlpha == ToCssRgba \/ ToCssHsla \/ CssRgbaOf \/ CssHslaOf
SpecCssAlpha == InitCssAlpha /\ [][NextCssAlpha]_vars

InitHardLight == Start(HardLightCalls)
NextHardLight == Blend \/ BlendSwappedOverlay
SpecHardLight == InitHardLight /\ [][NextHardLight]_vars

InitPaletteRotation == Start(PaletteRotationCalls)
NextPaletteRotation ==
    \/ Complementary
    \/ Triadic
    \/ SplitComplementary
    \/ Tetradic
    \/ AnalogousWith
    \/ RotateHueEach
SpecPaletteRotation == InitPaletteRotation /\ [][NextPaletteRotation]_vars

InitChain == Start(ChainCalls)
NextChain ==
    \/ ThenLighten \/ ThenDarken \/ ThenSaturate \/ ThenDesaturate \/ ThenRotateHue
    \/ ThenInvert \/ ThenGrayscale \/ ThenMix \/ ThenShade \/ ThenTint \/ ThenTone
    \/ ThenBlend \/ ThenComplementary \/ ThenAnalogous \/ ThenTriadic
    \/ ThenSplitComplementary \/ ThenTetradic
SpecChain == InitChain /\ [][NextChain]_vars

InitHslTriple == Start(HslTripleCalls)
NextHslTriple == HslToRgbOf \/ RgbToHslBack \/ Lighten \/ Darken
SpecHslTriple == InitHslTriple /\ [][NextHslTriple]_vars

InitGrayscaleTwice == Start(GrayscaleCalls)
NextGrayscaleTwice == Grayscale \/ GrayscaleAgain
SpecGrayscaleTwice == InitGrayscaleTwice /\ [][NextGrayscaleTwice]_vars

InitInvert == Start(InvertCalls)
NextInvert == Invert \/ InvertAgain
SpecInvert == InitInvert /\ [][NextInvert]_vars

InitInstance == Start(InstanceCalls)
NextInstance ==
    \/ ColorR \/ ColorG \/ ColorB \/ ColorRgb \/ ColorHex \/ ColorHsl \/ ColorCmyk
    \/ ColorCssHex \/ ColorCssRgb \/ ColorCssHsl \/ ColorCssRgba \/ ColorCssHsla
    \/ ColorRepr \/ ColorStr \/ ColorEq \/ ColorEqOther \/ ColorHash \/ ColorIter
    \/ ColorFormat
SpecInstance == InitInstance /\ [][NextInstance]_vars

\* the entry points that take a name, a mode, an alpha or a format spec
InitFailures == InitBlend \/ InitSimulate \/ Start(ConstructNameCalls) \/ InitInstance
NextFailures ==
    \/ Blend
    \/ Simulate
    \/ ColorFromName
    \/ ColorRandom
    \/ NextInstance
SpecFailures == InitFailures /\ [][NextFailures]_vars

Init ==
    \/ InitConstruct \/ InitHex \/ InitHsl \/ InitMix \/ InitBlend \/ InitContrast
    \/ InitSimulate \/ InitNaming \/ InitLightness \/ InitSaturation \/ InitRotate
    \/ InitGrayscale \/ InitPalette \/ InitInstance \/ InitTemperature
    \/ InitEquality \/ InitCssAlpha \/ InitHardLight
    \/ InitPaletteRotation \/ InitChain \/ InitHslTriple
    \/ InitGrayscaleTwice \/ InitInvert
Next ==
    \/ NextConstruct \/ NextHex \/ NextHsl \/ NextMix \/ NextBlend \/ NextContrast
    \/ NextSimulate \/ NextNaming \/ NextLightness \/ NextSaturation \/ NextRotate
    \/ NextGrayscale \/ NextPalette \/ NextInstance \/ NextTemperature
    \/ NextEquality \/ NextCssAlpha \/ NextHardLight
    \/ NextPaletteRotation \/ NextChain \/ NextHslTriple
    \/ NextGrayscaleTwice \/ NextInvert
Spec == Init /\ [][Next]_vars


(***************************************************************************)
(* Properties                                                              *)
(***************************************************************************)
Constructors == {"Color", "from_hsl", "from_cmyk", "from_name", "random"}

\* entry e of the log is a constructor call that produced a Color
Constructed(e) == e.fn \in Constructors /\ e.exc = "none"

ValidChannels(rgb) == Len(rgb) = 3 /\ \A k \in 1..3 : rgb[k] \in 0..255

Abs(n) == IF n < 0 THEN -n ELSE n

\* C1: every Color that is successfully constructed, by any route, stores three
\* channels each within [0,255]; no string parse_string accepts, 'hsl(h, s, l)'
\* with 1-3 digit components included, gives a channel outside [0,255].
C1_ChannelsInRange ==
    \A i \in 1..Len(log) : Constructed(log[i]) => ValidChannels(log[i].val)

\* C2, as claimed: Color(r,g,b) with a channel below 0 or above 255 and
\* Color('rgb(r, g, b)') with any component above 255 fail with ColorValueError,
\* Color(s) for a string of none of the accepted forms fails with
\* ColorParseError, and a failing construction produces no Color.
C2_BadInputRaises ==
    (Len(log) = 1 /\ call.fn = "Color") =>
        /\ (call.form = "ints" /\ \E k \in 1..3 : call.args[k].val \notin 0..255)
               => log[1].exc = "ColorValueError"
        /\ (call.form = "rgb" /\ \E k \in 1..3 : call.comps[k] > 255)
               => log[1].exc = "ColorValueError"
        /\ call.form = "junk" => log[1].exc = "ColorParseError"
        /\ log[1].exc # "none" => log[1].val = None

\* C2, amended: as above, except that in 'rgb(r, g, b)' only components of one
\* to three digits reach the range test: with every component at most 999 and
\* one above 255 the construction fails with ColorValueError, and with a
\* component of four or more digits the string is of no accepted form and the
\* construction fails with ColorParseError.
C2_BadInputRaisesByDigits ==
    (Len(log) = 1 /\ call.fn = "Color") =>
        /\ (call.form = "ints" /\ \E k \in 1..3 : call.args[k].val \notin 0..255)
               => log[1].exc = "ColorValueError"
        /\ (call.form = "rgb" /\ \E k \in 1..3 : call.comps[k] > 255)
               => log[1].exc = IF \A k \in 1..3 : call.comps[k] <= 999
                                THEN "ColorValueError" ELSE "ColorParseError"
        /\ call.form = "junk" => log[1].exc = "ColorParseError"
        /\ log[1].exc # "none" => log[1].val = None

\* Color('rgb(256, 0, 0)') has been refused with ColorValueError
C2_Refused ==
    /\ Len(log) = 1
    /\ call.fn = "Color"
    /\ call.form = "rgb"
    /\ call.comps = <<256, 0, 0>>
    /\ log[1].exc = "ColorValueError"
    /\ log[1].val = None

\* C3: from_hsl with h outside [0,360] or s or l outside [0,100], and from_cmyk
\* with a component outside [0,100], fail with ColorValueError and never return
\* a Color.
C3_OutOfDomainRaises ==
    /\ (Len(log) = 1 /\ call.fn = "from_hsl"
        /\ (call.args[1] \notin 0..360 \/ call.args[2] \notin 0..100
            \/ call.args[3] \notin 0..100))
           => log[1].exc = "ColorValueError"
    /\ (Len(log) = 1 /\ call.fn = "from_cmyk"
        /\ \E k \in 1..4 : call.args[k] \notin 0..100)
           => log[1].exc = "ColorValueError"

LowerHexDigits == {"0", "1", "2", "3", "4", "5", "6", "7", "8", "9",
                   "a", "b", "c", "d", "e", "f"}

\* C4: for (r,g,b) in [0,255]^3, rgb_to_hex gives '#' followed by exactly six
\* lowercase hex digits, and hex_to_rgb of that string is (r,g,b) again.
C4_HexRoundTrip ==
    /\ (Len(log) >= 1 /\ log[1].fn = "rgb_to_hex") =>
           /\ Len(log[1].val) = 7
           /\ log[1].val[1] = "#"
           /\ \A i \in 2..7 : log[1].val[i] \in LowerHexDigits
    /\ (Len(log) = 2 /\ log[2].fn = "hex_to_rgb") =>
           /\ log[2].exc = "none"
           /\ log[2].val = call.args

\* (1, 2, 254), whose channels need zero padding, has come back from its hex string
C4_RoundTripped ==
    /\ Len(log) = 2
    /\ call.args = <<1, 2, 254>>
    /\ log[1].val = <<"#", "0", "1", "0", "2", "f", "e">>
    /\ log[2].val = <<1, 2, 254>>

\* the largest per-channel distance between two RGB triples
ChannelDistance(p, q) ==
    CHOOSE d \in 0..255 :
        /\ \A k \in 1..3 : Abs(p[k] - q[k]) <= d
        /\ \E k \in 1..3 : Abs(p[k] - q[k]) = d

HslRoundTripped == Len(log) = 2 /\ log[1].fn = "rgb_to_hsl" /\ log[2].fn = "hsl_to_rgb"

\* C5, as claimed: for (r,g,b) in [0,255]^3, hsl_to_rgb(*rgb_to_hsl(r,g,b))
\* differs from (r,g,b) by at most 1 in each channel.
C5_HslRoundTripWithin1 ==
    HslRoundTripped => ChannelDistance(log[2].val, call.args) <= 1

\* C5, amended: for (r,g,b) in [0,255]^3, hsl_to_rgb(*rgb_to_hsl(r,g,b)) is a
\* valid RGB triple that differs from (r,g,b) by at most 5 in each channel.
C5_HslRoundTripWithin5 ==
    HslRoundTripped =>
        /\ ValidChannels(log[2].val)
        /\ ChannelDistance(log[2].val, call.args) <= 5

\* (2, 228, 230) has come back as (2, 223, 227): 5 away in the green channel
C5_FiveAway ==
    /\ HslRoundTripped
    /\ call.args = <<2, 228, 230>>
    /\ log[1].val = <<181, 98, 45>>
    /\ log[2].val = <<2, 223, 227>>

\* C6, as claimed: for (r,g,b) in [0,255]^3, rgb_to_hsl returns a hue in
\* [0,360), never 360, saturation and lightness in [0,100], and hue 0 and
\* saturation 0 when r = g = b.
C6_HueBelow360 ==
    (Len(log) >= 1 /\ log[1].fn = "rgb_to_hsl") =>
        /\ log[1].val[1] \in 0..359
        /\ log[1].val[2] \in 0..100
        /\ log[1].val[3] \in 0..100
        /\ (call.args[1] = call.args[2] /\ call.args[2] = call.args[3])
               => (log[1].val[1] = 0 /\ log[1].val[2] = 0)

\* C6, amended: for (r,g,b) in [0,255]^3, rgb_to_hsl returns a hue in the
\* closed range [0,360] (a hue that rounds up from above 359.5 is returned as
\* 360), saturation and lightness in [0,100], and hue 0 and saturation 0 when
\* r = g = b.
C6_HueUpTo360 ==
    (Len(log) >= 1 /\ log[1].fn = "rgb_to_hsl") =>
        /\ log[1].val[1] \in 0..360
        /\ log[1].val[2] \in 0..100
        /\ log[1].val[3] \in 0..100
        /\ (call.args[1] = call.args[2] /\ call.args[2] = call.args[3])
               => (log[1].val[1] = 0 /\ log[1].val[2] = 0)

\* rgb_to_hsl(255, 0, 1) has returned hue 360
C6_Hue360 ==
    /\ Len(log) >= 1
    /\ log[1].fn = "rgb_to_hsl"
    /\ call.args = <<255, 0, 1>>
    /\ log[1].val = <<360, 100, 50>>

\* C7: mix(a,b,0.0) = a and mix(a,b,1.0) = b exactly, and the weight is
\* clamped to [0,1]: mix(a,b,w) = a for every w <= 0 and b for every w >= 1.
C7_MixEndpoints ==
    (Len(log) = 1 /\ call.fn = "mix") =>
        /\ call.num <= 0 => log[1].val = call.args[1]
        /\ call.num >= WeightDen => log[1].val = call.args[2]

\* mix(black, white, 2.0) has returned white
C7_MixedPastEnd ==
    /\ Len(log) = 1
    /\ call.fn = "mix"
    /\ call.num = 2 * WeightDen
    /\ call.args[1] = Black
    /\ call.args[2] = White
    /\ log[1].val = White

\* C8: gradient(a,b,steps) with steps >= 2 has exactly steps elements, the
\* first a and the last b; with steps < 2 (1, 0, negative) it is [a].
C8_GradientShape ==
    (Len(log) = 1 /\ call.fn = "gradient") =>
        IF call.args[3] >= 2
        THEN /\ Len(log[1].val) = call.args[3]
             /\ log[1].val[1] = call.args[1]
             /\ log[1].val[call.args[3]] = call.args[2]
        ELSE log[1].val = <<call.args[1]>>

\* gradient(black, white, MaxSteps) has returned MaxSteps colours ending in white
C8_LongGradient ==
    /\ Len(log) = 1
    /\ call.fn = "gradient"
    /\ call.args = <<Black, White, MaxSteps>>
    /\ Len(log[1].val) = MaxSteps
    /\ log[1].val[MaxSteps] = White

\* C9: blend(white, top, "multiply") = top, blend(black, top, "multiply") =
\* black and blend(c, c, "difference") = black.
C9_BlendIdentities ==
    (Len(log) = 1 /\ call.fn = "blend") =>
        /\ (call.args[3] = "multiply" /\ call.args[1] = White)
               => log[1] = Entry("blend", Returned(call.args[2]))
        /\ (call.args[3] = "multiply" /\ call.args[1] = Black)
               => log[1] = Entry("blend", Returned(Black))
        /\ (call.args[3] = "difference" /\ call.args[1] = call.args[2])
               => log[1] = Entry("blend", Returned(Black))

\* blend(white, (1, 2, 254), "multiply") has returned (1, 2, 254)
C9_MultipliedByWhite ==
    /\ Len(log) = 1
    /\ call.args = <<White, <<1, 2, 254>>, "multiply">>
    /\ log[1].val = <<1, 2, 254>>

\* C10: contrast_ratio(x, y) = contrast_ratio(y, x) for all RGB x and y.
C10_ContrastSymmetric ==
    (Len(log) = 2 /\ log[1].fn = "contrast_ratio" /\ log[2].fn = "contrast_ratio")
        => log[1].val = log[2].val

\* contrast_ratio(black, white) and contrast_ratio(white, black) have both
\* returned 21.0
C10_BlackOnWhite ==
    /\ Len(log) = 2
    /\ call.args = <<Black, White>>
    /\ log[1].val = 2100
    /\ log[2].val = 2100

\* C11: for each supported deficiency d (protanopia, deuteranopia,
\* tritanopia), simulate(0,0,0,d) = (0,0,0) and simulate(255,255,255,d) =
\* (255,255,255).
C11_SimulateEndpoints ==
    (Len(log) = 1 /\ call.fn = "simulate"
     /\ call.args[4] \in {"protanopia", "deuteranopia", "tritanopia"}) =>
        /\ <<call.args[1], call.args[2], call.args[3]>> = Black
               => log[1] = Entry("simulate", Returned(Black))
        /\ <<call.args[1], call.args[2], call.args[3]>> = White
               => log[1] = Entry("simulate", Returned(White))

\* simulate(255, 255, 255, "tritanopia") has returned white
C11_WhiteSimulated ==
    /\ Len(log) = 1
    /\ call.args = <<255, 255, 255, "tritanopia">>
    /\ log[1].val = White

\* the RGB value of the table's i-th entry, and its squared distance to c
NamedRGB(i) == hex_to_rgb(NAMED_COLORS[NAMED_COLORS_keys[i]]).val

NamedDistance(c, i) == SquaredDistance(c[1], c[2], c[3], NamedRGB(i))

\* C12: find_closest_name(r,g,b) returns a table entry at least as close to
\* (r,g,b) as every other entry, the first in table order among the equally
\* close ones; its exact field is true iff the returned distance is 0, which
\* is the case iff some table entry has exactly the RGB value (r,g,b).
C12_ClosestName ==
    (Len(log) = 1 /\ call.fn = "find_closest_name") =>
        /\ \E i \in 1..Len(NAMED_COLORS_keys) :
               /\ log[1].val.name = NAMED_COLORS_keys[i]
               /\ log[1].val.hex = NAMED_COLORS[NAMED_COLORS_keys[i]]
               /\ \A j \in 1..Len(NAMED_COLORS_keys) :
                      NamedDistance(call.args, i) <= NamedDistance(call.args, j)
               /\ \A j \in 1..(i - 1) :
                      NamedDistance(call.args, i) < NamedDistance(call.args, j)
        /\ log[1].val.exact = (log[1].val.distance = 0)
        /\ (log[1].val.distance = 0)
               = (\E j \in 1..Len(NAMED_COLORS_keys) : NamedRGB(j) = call.args)

\* find_closest_name(0, 254, 255) has returned aqua, which precedes the
\* equally close cyan, at distance 1.0 and not exact
C12_AquaBeforeCyan ==
    /\ Len(log) = 1
    /\ call.fn = "find_closest_name"
    /\ call.args = <<0, 254, 255>>
    /\ log[1].val.name = <<"a", "q", "u", "a">>
    /\ log[1].val.distance = 10000
    /\ ~log[1].val.exact

RotatedTwice == Len(log) = 2 /\ log[1].fn = "rotate_hue" /\ log[2].fn = "rotate_hue"

CallColour == <<call.args[1], call.args[2], call.args[3]>>

\* C13, as claimed: for every RGB colour c, rotate_hue(rotate_hue(c, 180), 180)
\* differs from c by at most 1 in each channel.
C13_RotateTwiceWithin1 ==
    RotatedTwice => ChannelDistance(log[2].val, CallColour) <= 1

\* C13, amended: for every RGB colour c, rotate_hue(rotate_hue(c, 180), 180)
\* is a valid RGB triple that differs from c by at most 5 in each channel.
C13_RotateTwiceWithin5 ==
    RotatedTwice =>
        /\ ValidChannels(log[2].val)
        /\ ChannelDistance(log[2].val, CallColour) <= 5

\* (2, 228, 230) rotated by 180 degrees twice has come back as (2, 223, 227)
C13_FiveAwayAfterTwo ==
    /\ RotatedTwice
    /\ CallColour = <<2, 228, 230>>
    /\ log[2].val = <<2, 223, 227>>

WrongArity ==
    /\ call.fn = "Color"
    /\ Len(call.args) \notin {1, 3}
    /\ log # << >>

\* C15: Color() called with a number of arguments other than 1 or 3 fails
\* with ColorParseError, the class of the parse failures, and with no
\* ColorValueError
C15_WrongArityIsParseError ==
    WrongArity =>
        /\ log[1].exc = "ColorParseError"
        /\ ~IsSubclass(log[1].exc, "ColorValueError")

\* C15 as stated: the failure is a ColorValueError and no parse failure
C15_WrongArityIsValueError ==
    WrongArity =>
        /\ log[1].exc = "ColorValueError"
        /\ ~IsSubclass(log[1].exc, "ColorParseError")

\* Color(1, 2) has been refused
C15_TwoArgsRefused ==
    /\ WrongArity
    /\ call.args = <<PyInt(1), PyInt(2)>>
    /\ log[1].exc = "ColorParseError"

\* C16: whatever accessors and methods are called on a Color, in whatever
\* order and whether they return or fail, its channels stay the ones it was
\* constructed with
C16_NeverMutated ==
    OnInstance =>
        /\ call.self._rgb = call.args
        /\ (log # << >> /\ log[1].fn \in {"Color.rgb", "Color.__iter__"}) =>
               log[1].val = call.args

\* a call on the instance has failed and the instance is what it was
C16_FailedCallLeftItAlone ==
    /\ OnInstance
    /\ log # << >>
    /\ log[1].fn = "Color.__format__"
    /\ log[1].exc # "none"
    /\ call.args = <<52, 152, 219>>
    /\ call.self._rgb = <<52, 152, 219>>

\* the HSL triple of an RGB triple
HslOf(c) == rgb_to_hsl(c[1], c[2], c[3])

\* the one call of the session, to fn, has returned
Applied(fn) == log # << >> /\ call.fn = fn /\ log[1].fn = fn

\* lightness L has become L2 as lighten by a is to make it
Lightened(L, L2, a) ==
    /\ L < 100 => L2 > L
    /\ L + a >= 100 => L2 = 100

\* lightness L has become L2 as darken by a is to make it
Darkened(L, L2, a) ==
    /\ L > 0 => L2 < L
    /\ L - a <= 0 => L2 = 0

\* C17: for an amount a >= 1, lighten raises the HSL lightness L of a colour
\* strictly when L < 100 and to exactly 100 when L + a >= 100, darken lowers
\* it strictly when L > 0 and to exactly 0 when L - a <= 0; lighten leaves
\* white white and darken leaves black black
C17_LightnessMoves ==
    /\ (Applied("lighten") /\ call.args[4] >= 1) =>
           /\ Lightened(HslOf(CallColour)[3], HslOf(log[1].val)[3], call.args[4])
           /\ CallColour = White => log[1].val = White
    /\ (Applied("darken") /\ call.args[4] >= 1) =>
           /\ Darkened(HslOf(CallColour)[3], HslOf(log[1].val)[3], call.args[4])
           /\ CallColour = Black => log[1].val = Black

\* (52, 152, 219), of lightness 53, has been lightened by 1 to lightness 54
C17_LightenedByOne ==
    /\ Applied("lighten")
    /\ call.args = <<52, 152, 219, 1>>
    /\ HslOf(CallColour)[3] = 53
    /\ HslOf(log[1].val)[3] = 54

\* C18 as stated: for an amount in 0..100, saturate does not lower the HSL
\* saturation of a colour and desaturate does not raise it
C18_SaturationMonotone ==
    /\ (Applied("saturate") /\ call.args[4] \in 0..100) =>
           HslOf(log[1].val)[2] >= HslOf(CallColour)[2]
    /\ (Applied("desaturate") /\ call.args[4] \in 0..100) =>
           HslOf(log[1].val)[2] <= HslOf(CallColour)[2]

\* a gray of some value v in 0..255 has been passed to grayscale
GrayApplied ==
    /\ Applied("grayscale")
    /\ call.args[1] = call.args[2]
    /\ call.args[2] = call.args[3]

PaletteApplied == log # << >> /\ call.fn \in PaletteFns /\ log[1].fn = call.fn

PaletteResult == IF call.fn = "complementary" THEN <<log[1].val>> ELSE log[1].val

\* colour c keeps the lightness of hsl, and its saturation within 1 if that
\* lightness is one of 12..88
KeepsLightness(hsl, c) ==
    /\ c[3] = hsl[3]
    /\ hsl[3] \in 12..88 => Abs(c[2] - hsl[2]) <= 1

\* colour c has the saturation and the lightness of hsl within 1
KeepsBothWithin1(hsl, c) ==
    /\ Abs(c[2] - hsl[2]) <= 1
    /\ Abs(c[3] - hsl[3]) <= 1

C21_PaletteExcludesOriginal ==
    PaletteApplied =>
        \A i \in DOMAIN PaletteResult : PaletteResult[i] # CallColour

\* the label the classification by HSL gives a colour of triple hsl
TemperatureOf(hsl) ==
    IF hsl[2] < 10 THEN "neutral"
    ELSE IF hsl[1] <= 60 \/ hsl[1] >= 300 THEN "warm"
    ELSE "cool"

\* C22: classify_temperature returns one of three labels, decided by the HSL
\* triple alone: neutral exactly when the saturation is below 10, as it is
\* for every gray, otherwise warm exactly when the hue is at most 60 or at
\* least 300, otherwise cool
C22_ThreeWayByHsl ==
    Applied("classify_temperature") =>
        /\ log[1].exc = "none"
        /\ log[1].val \in {"warm", "cool", "neutral"}
        /\ log[1].val = TemperatureOf(HslOf(CallColour))
        /\ (call.args[1] = call.args[2] /\ call.args[2] = call.args[3]) =>
               log[1].val = "neutral"

\* yellow, of hue 60, has been classified warm
C22_Hue60Warm ==
    /\ Applied("classify_temperature")
    /\ CallColour = <<255, 255, 0>>
    /\ HslOf(CallColour)[1] = 60
    /\ log[1].val = "warm"

\* the two values have been compared
Compared == call.fn = "==" /\ Len(log) >= 3

\* C23: two Colors are equal exactly when their channel triples are, however
\* each was constructed (the five constructions of red are all equal);
\* equal Colors have equal hashes; a Color is never equal to a value that is
\* no Color
C23_StructuralEquality ==
    Compared =>
        /\ IsColor(log[2].val) => log[3].val = (log[1].val._rgb = log[2].val._rgb)
        /\ ~IsColor(log[2].val) => log[3].val = FALSE
        /\ (call.left \in RedRoutes /\ call.right \in RedRoutes) => log[3].val = TRUE
        /\ (Len(log) = 5 /\ log[3].val = TRUE) => log[4].val = log[5].val

\* Color('red') and Color.from_name('RED') have compared equal and hashed
\* alike
C23_RedEqualsRed ==
    /\ Compared
    /\ call.left = 3
    /\ call.right = 5
    /\ Len(log) = 5
    /\ log[3].val = TRUE
    /\ log[4].val = log[5].val

\* a CSS form that takes an alpha has been called
AlphaApplied == log # << >> /\ call.fn \in CssAlphaFns /\ log[1].fn = call.fn

\* 0 <= alpha <= 1 for an alpha that is a number; nan is in no range
AlphaInUnit(a) == a.type \in {"int", "float"} /\ 0 <= a.tenths /\ a.tenths <= 10

\* C24 as stated: the CSS forms that take an alpha fail whenever the alpha
\* is below 0, above 1 or no number, and return a string only when
\* 0 <= alpha <= 1
C24_AlphaValidated ==
    AlphaApplied => (log[1].exc = "none" <=> AlphaInUnit(call.alpha))

\* hard_light of a over b has been followed by overlay of b over a
HardLightSwapped ==
    /\ call.fn = "blend"
    /\ call.args[3] = "hard_light"
    /\ Len(log) = 2

\* C25: blend(a, b, 'hard_light') equals blend(b, a, 'overlay')
C25_HardLightIsSwappedOverlay ==
    HardLightSwapped =>
        /\ log[1].exc = "none"
        /\ log[2].exc = "none"
        /\ log[1].val = log[2].val

\* (52, 152, 219) hard-lit by (255, 102, 0) gives the overlay of the other
\* order, which is not the overlay of this one
C25_HardLightCompared ==
    /\ HardLightSwapped
    /\ call.args[1] = <<52, 152, 219>>
    /\ call.args[2] = <<255, 102, 0>>
    /\ log[1].val = log[2].val
    /\ log[1].val # _apply(call.args[1], call.args[2], "overlay")

\* a palette has been followed by the rotations it is compared with
PaletteRotated == Len(log) = 2 /\ log[2].fn = "rotate_hue" /\ "n" \in DOMAIN call

\* C26: every palette is the list of rotate_hue results for its degrees:
\* complementary 180; triadic 120, 240; split_complementary 150, 210;
\* tetradic 90, 180, 270; analogous(c, n, step) step * (i - n // 2) for
\* i = 0..n-1
C26_PalettesAreRotations ==
    PaletteRotated =>
        IF call.fn = "complementary" THEN <<log[1].val>> = log[2].val
        ELSE log[1].val = log[2].val

\* analogous of (52, 152, 219) with n = 4 and step = 45 has been matched by
\* the rotations by -90, -45, 0 and 45 degrees
C26_AnalogousMatched ==
    /\ PaletteRotated
    /\ call.fn = "analogous_with"
    /\ call.args = <<52, 152, 219>>
    /\ call.n = 4
    /\ call.step = 45
    /\ Len(log[1].val) = 4
    /\ log[1].val[1] = rotate_hue(52, 152, 219, -90)
    /\ log[1].val = log[2].val

\* a triple of integers in 0..255
ValidRGB(c) == Len(c) = 3 /\ \A k \in 1..3 : c[k] \in 0..255

\* C27: whatever sequence of lighten, darken, saturate, desaturate,
\* rotate_hue, invert, grayscale, mix, shade, tint, tone, blend (multiply,
\* screen, overlay, hard_light, difference) and palette functions is applied
\* to a valid RGB triple, the result is a triple of integers in 0..255
C27_ValidRGBClosed ==
    call.fn = "chain" =>
        /\ ValidRGB(call.colour)
        /\ log # << >> => (log[1].exc = "none" /\ log[1].val = call.colour)

\* two transformations have been applied, the second a lighten that has
\* reached white
C27_ChainedToWhite ==
    /\ call.fn = "chain"
    /\ call.count = 2
    /\ log[1].fn = "lighten"
    /\ call.colour = White
    /\ call.args # White

\* an HSL triple has been converted to RGB and read back
TripleReadBack == call.fn = "hsl_to_rgb" /\ Len(log) = 2 /\ log[2].fn = "rgb_to_hsl"

\* the smaller and the larger of two integers
MinOf(a, b) == IF a < b THEN a ELSE b
MaxOf(a, b) == IF a < b THEN b ELSE a

GrayscaleTwice == Applied("grayscale") /\ Len(log) = 2 /\ log[2].fn = "grayscale"

\* the three channels of c are equal
IsGray(c) == c[1] = c[2] /\ c[2] = c[3]

\* C29: grayscale of an RGB colour has three equal channels, and grayscale
\* of that gray is the same gray again
C29_GrayscaleIdempotent ==
    /\ Applied("grayscale") => IsGray(log[1].val)
    /\ GrayscaleTwice => log[2].val = log[1].val

\* (52, 152, 219) has become (135, 135, 135), which has stayed as it is
C29_BlueMadeGrayTwice ==
    /\ GrayscaleTwice
    /\ call.args = <<52, 152, 219>>
    /\ log[1].val = <<135, 135, 135>>
    /\ log[2].val = <<135, 135, 135>>

\* a colour has been inverted, and its inverse inverted
InvertedTwice == Applied("invert") /\ Len(log) = 2 /\ log[2].fn = "invert"

\* C30: invert of an RGB colour with channels in 0..255 is 255 minus each
\* channel, which is again a colour with channels in 0..255, and invert of
\* that is the colour it started from
C30_InvertInvolution ==
    /\ Applied("invert") =>
           /\ log[1].val = <<255 - call.args[1], 255 - call.args[2], 255 - call.args[3]>>
           /\ ValidRGB(log[1].val)
    /\ InvertedTwice => log[2].val = call.args

\* (52, 152, 219) has become (203, 103, 36) and then (52, 152, 219) again
C30_BlueInvertedTwice ==
    /\ InvertedTwice
    /\ call.args = <<52, 152, 219>>
    /\ log[1].val = <<203, 103, 36>>
    /\ log[2].val = <<52, 152, 219>>

====
